---- MODULE Spec2Model ----
(***************************************************************************)
(* Model of the analysis engine of spring_explorer (src/explorer.py,       *)
(* src/models.py): tree indexer, declaration extractor, symbol resolver,   *)
(* call-graph builder and cache manager.                                   *)
(*                                                                         *)
(* Python strings are modelled as sequences of tokens: an identifier is    *)
(* one token, every separator character the code inspects ('.', '$', '(',  *)
(* ')', ',', '<', '>', ' ', '*') is a token of its own.  String operations *)
(* (split, join, endswith, startswith, "in") are computed on the tokens.   *)
(***************************************************************************)
EXTENDS Integers, Sequences, FiniteSets, TLC

\* ------------------------------------------------------------------ bounds
\* source files of a project
MaxFiles == 2
\* largest number an index part can denote
MaxIdx == 9
\* runs of the program over one project directory
MaxSessions == 2
\* changes of a modification time
MaxTouches == 1
\* calls of the query operations in one run
MaxQueries == 1

VARIABLES
    fs,                 \* the project directory: [dirs, files, bulk]
    content,            \* what the parser sees in each source file
    mtime,              \* modification time of each file
    now,                \* the clock
    cache_file,         \* .explorer_cache/explorer_cache.pkl, NoFile when absent
    pc,                 \* position of the engine in analyze_project
    index_structure, components, methods, package_structure, parse_errors,
    string_index, call_graph,
    cheap, mheap,       \* the component and method objects, by identity
    tasks,              \* the futures of _parse_java_files_parallel
    ret,                \* result of the last query
    hist                \* history: session count, touches, last load, last build, acting thread

engine == <<index_structure, components, methods, package_structure, parse_errors, string_index, call_graph, cheap, mheap>>

env == <<fs, content, mtime, now, cache_file>>

vars == <<fs, content, mtime, now, cache_file, pc, index_structure, components, methods, package_structure,
          parse_errors, string_index, call_graph, cheap, mheap, tasks, ret, hist>>

\* ----------------------------------------------------------- string helpers
HasTok(s, t) == \E i \in 1..Len(s) : s[i] = t

StartsWith(s, pre) == Len(s) >= Len(pre) /\ SubSeq(s, 1, Len(pre)) = pre

EndsWith(s, suf) == Len(s) >= Len(suf) /\ SubSeq(s, Len(s) - Len(suf) + 1, Len(s)) = suf

FirstIdx(s, t) == IF HasTok(s, t) THEN CHOOSE i \in 1..Len(s) : s[i] = t /\ \A j \in 1..(i-1) : s[j] # t ELSE 0

LastIdx(s, t) == IF HasTok(s, t) THEN CHOOSE i \in 1..Len(s) : s[i] = t /\ \A j \in (i+1)..Len(s) : s[j] # t ELSE 0

\* s.split(t, 1)[0]
BeforeFirst(s, t) == IF HasTok(s, t) THEN SubSeq(s, 1, FirstIdx(s, t) - 1) ELSE s

\* t.join(s.split(t)[:-1])
BeforeLast(s, t) == IF HasTok(s, t) THEN SubSeq(s, 1, LastIdx(s, t) - 1) ELSE <<>>

RECURSIVE Split(_, _)
Split(s, t) ==
    IF ~HasTok(s, t) THEN <<s>>
    ELSE <<SubSeq(s, 1, FirstIdx(s, t) - 1)>> \o Split(SubSeq(s, FirstIdx(s, t) + 1, Len(s)), t)

RECURSIVE Join(_, _)
Join(parts, t) ==
    IF Len(parts) = 0 THEN <<>>
    ELSE IF Len(parts) = 1 THEN parts[1]
    ELSE parts[1] \o <<t>> \o Join(Tail(parts), t)

RECURSIVE Flatten(_)
Flatten(ss) == IF Len(ss) = 0 THEN <<>> ELSE ss[1] \o Flatten(Tail(ss))

RECURSIVE SetToSeq(_)
SetToSeq(S) == IF S = {} THEN <<>> ELSE LET x == CHOOSE y \in S : TRUE IN <<x>> \o SetToSeq(S \ {x})

SeqToSet(s) == {s[i] : i \in 1..Len(s)}

\* str.lower() on one token
Lower(t) ==
    CASE t = "JAVA" -> "java"
      [] t = "XML" -> "xml"
      [] t = "Run" -> "run"
      [] t = "Foo" -> "foo"
      [] t = "Outer" -> "outer"
      [] t = "RUN" -> "run"
      [] t = "U" -> "u"
      [] t = "I" -> "i"
      [] t = "C" -> "c"
      [] t = "String" -> "string"
      [] OTHER -> t

\* ------------------------------------------------------------- file system
\* A file or directory name is a token sequence; a path is the sequence of
\* names below the project root (the root itself is <<>>).
CacheDirName == <<".", "explorer_cache">>

IGNORED_DIRS ==
    { <<".", "git">>, <<"target">>, <<"build">>, <<"node_modules">>, <<".", "idea">>,
      <<".", "gradle">>, <<".", "settings">>, <<".", "classpath">>, <<".", "project">>,
      <<"__pycache__">>, <<".", "DS_Store">>, <<".", "explorer_cache">>, <<"dist">>, <<"out">> }

\* the names a directory listing can hold, in the order sorted() gives them
NameOrder ==
    << <<".", "explorer_cache">>, <<".", "mvn">>, <<"A", ".", "java">>, <<"B", ".", "JAVA">>,
       <<"C", ".", "java">>, <<"notes", ".", "txt">>, <<"src">>, <<"target">> >>

project_path == <<>>

cache_dir == project_path \o <<CacheDirName>>

RootName == <<"proj">>

basename(path) == IF Len(path) = 0 THEN RootName ELSE path[Len(path)]

\* os.path.splitext(filename)[1]: from the last '.', unless that is a leading one
SplitExt(name) == IF LastIdx(name, ".") > 1 THEN SubSeq(name, LastIdx(name, "."), Len(name)) ELSE <<>>

\* sorted(os.listdir(directory)) in file system f
Listing(f, directory) ==
    SelectSeq(NameOrder, LAMBDA n : (directory \o <<n>>) \in (f.dirs \cup f.files))

_determine_file_type(filename) ==
    LET ext == [i \in 1..Len(SplitExt(filename)) |-> Lower(SplitExt(filename)[i])]
    IN  CASE ext = <<".", "java">> -> "java"
          [] ext \in { <<".", "properties">>, <<".", "yml">>, <<".", "yaml">> } -> "config"
          [] ext = <<".", "xml">> -> "xml"
          [] ext \in { <<".", "md">>, <<".", "txt">> } -> "doc"
          [] OTHER -> "other"

\* ------------------------------------------------------------ tree indexer
ChildIdx(parent_idx, i) ==
    IF parent_idx # <<>> THEN parent_idx \o <<".", ToString(i)>> ELSE <<ToString(i)>>

RECURSIVE _traverse_directory(_, _, _)
_traverse_directory(f, directory, parent_idx) ==
    IF basename(directory) \in IGNORED_DIRS \/ directory = cache_dir THEN <<>>
    ELSE LET items == Listing(f, directory)
             entry(i) ==
                LET path == directory \o <<items[i]>>
                    idx == ChildIdx(parent_idx, i)
                IN  IF path \in f.dirs
                    THEN IF basename(path) \notin IGNORED_DIRS /\ path # cache_dir
                         THEN << [index |-> idx, path |-> path, name |-> items[i], type |-> "directory",
                                  children |-> _traverse_directory(f, path, idx)] >>
                         ELSE <<>>
                    ELSE << [index |-> idx, path |-> path, name |-> items[i],
                             type |-> _determine_file_type(items[i]), children |-> <<>>] >>
         IN  Flatten([i \in 1..Len(items) |-> entry(i)])

_build_project_structure(f) ==
    [index |-> <<"0">>, path |-> project_path, name |-> basename(project_path), type |-> "directory",
     children |-> _traverse_directory(f, project_path, <<>>)]

RECURSIVE _find_files_by_type(_, _)
_find_files_by_type(node, file_type) ==
    (IF node.type = file_type THEN <<node>> ELSE <<>>)
    \o Flatten([i \in 1..Len(node.children) |-> _find_files_by_type(node.children[i], file_type)])

\* int(part) succeeds (no ValueError)
IntOk(part) ==
    \/ Len(part) = 1 /\ \E k \in 0..(MaxIdx + 1) : ToString(k) = part[1]
    \/ part \in { <<"+1">>, <<" 1">>, <<"-1">> }

\* int(part) when it succeeds
IntOf(part) ==
    IF part \in { <<"+1">>, <<" 1">> } THEN 1
    ELSE IF part = <<"-1">> THEN -1
    ELSE CHOOSE k \in 0..(MaxIdx + 1) : ToString(k) = part[1]

NoneNode == [none |-> TRUE]

\* an exception of the given type is raised
Raised(type) == [raised |-> type]

\* the loop "for part in parts" inside the try block
RECURSIVE WalkIndex(_, _)
WalkIndex(current_node, parts) ==
    IF Len(parts) = 0 THEN current_node
    ELSE IF ~IntOk(parts[1]) THEN Raised("ValueError")
    ELSE LET idx_num == IntOf(parts[1])
         IN  IF 0 < idx_num /\ idx_num <= Len(current_node.children)
             THEN WalkIndex(current_node.children[idx_num], Tail(parts))
             ELSE NoneNode

\* index is [isstr |-> BOOLEAN, text |-> tokens]
GetNodeUncaught(root, index) ==
    IF ~index.isstr \/ index.text = <<>> THEN NoneNode
    ELSE IF index.text = <<"0">> THEN root
    ELSE WalkIndex(root, Split(index.text, "."))

get_node_by_index(root, index) ==
    IF ~index.isstr \/ index.text = <<>> THEN NoneNode
    ELSE IF index.text = <<"0">> THEN root
    ELSE LET found == WalkIndex(root, Split(index.text, "."))
         IN  IF "raised" \in DOMAIN found THEN NoneNode ELSE found

RECURSIVE TreeNodes(_)
TreeNodes(node) == {node} \cup UNION {TreeNodes(node.children[i]) : i \in 1..Len(node.children)}

\* ------------------------------------------------- source adapter: AST shape
\* A type reference node of the parser: name, optional sub_type chain,
\* generic arguments and array dimensions.
TypeRef(name) == [name |-> name, sub |-> <<>>, args |-> <<>>, dims |-> 0]

TypeSub(name, sub) == [name |-> name, sub |-> <<sub>>, args |-> <<>>, dims |-> 0]

TypeGen(name, args) == [name |-> name, sub |-> <<>>, args |-> args, dims |-> 0]

RECURSIVE _format_type(_)
_format_type(node) ==
    <<node.name>>
    \o (IF Len(node.sub) > 0 THEN <<".">> \o _format_type(node.sub[1]) ELSE <<>>)
    \o (IF Len(node.args) > 0
        THEN <<"<">> \o Join([i \in 1..Len(node.args) |-> _format_type(node.args[i])], ",") \o <<">">>
        ELSE <<>>)
    \o [i \in 1..node.dims |-> "[]"]

Param(type, name) == [type |-> type, name |-> name, varargs |-> FALSE]

Inv(qualifier, member, nargs) == [qualifier |-> qualifier, member |-> member, nargs |-> nargs]

MethodDecl(name, params, invs) == [name |-> name, params |-> params, invs |-> invs]

TypeDecl(kind, name, ext, impl, flds, meths, inner) ==
    [kind |-> kind, name |-> name, annotations |-> <<>>, extends |-> ext, implements |-> impl,
     fields |-> flds, methods |-> meths, constructors |-> <<>>, inner |-> inner]

\* an import declaration of the parser: the path never holds the ".*" of a wildcard import
Import(path, wildcard) == [path |-> path, wildcard |-> wildcard]

Word(s, n) == [type |-> "identifier", s |-> s, len |-> n]

Literal(s, n) == [type |-> "literal", s |-> s, len |-> n]

JavaFile(package, imports, types, text) ==
    [status |-> "ok", package |-> package, imports |-> imports, types |-> types, text |-> text]

BrokenFile(status, text) == [status |-> status, package |-> <<>>, imports |-> <<>>, types |-> <<>>, text |-> text]

SPRING_NAMES ==
    << "Controller", "RestController", "Service", "Repository", "Component", "Configuration",
       "Bean", "Entity", "Autowired" >>

LowerName(t) ==
    CASE t \in {"Controller", "controller", "CONTROLLER"} -> "controller"
      [] t \in {"RestController", "restcontroller", "Restcontroller"} -> "restcontroller"
      [] t \in {"Service", "service", "SERVICE"} -> "service"
      [] t \in {"Repository", "repository"} -> "repository"
      [] t \in {"Component", "component"} -> "component"
      [] t \in {"Configuration", "configuration"} -> "configuration"
      [] t \in {"Bean", "bean"} -> "bean"
      [] t \in {"Entity", "entity"} -> "entity"
      [] t \in {"Autowired", "autowired"} -> "autowired"
      [] OTHER -> Lower(t)

RECURSIVE FirstSpringMatch(_, _)
FirstSpringMatch(annos, i) ==
    IF i > Len(annos) THEN ""
    ELSE IF \E j \in 1..Len(SPRING_NAMES) : LowerName(annos[i]) = LowerName(SPRING_NAMES[j])
         THEN SPRING_NAMES[CHOOSE j \in 1..Len(SPRING_NAMES) :
                  /\ LowerName(annos[i]) = LowerName(SPRING_NAMES[j])
                  /\ \A k \in 1..(j-1) : LowerName(annos[i]) # LowerName(SPRING_NAMES[k])]
         ELSE FirstSpringMatch(annos, i + 1)

_determine_component_type(node) ==
    IF FirstSpringMatch(node.annotations, 1) # "" THEN FirstSpringMatch(node.annotations, 1) ELSE node.kind

\* ---------------------------------------------------- declaration extractor
\* The stores are passed around as one record st with the fields
\*   components, methods, package_structure, parse_errors, cheap, mheap
\* where cheap / mheap hold the SpringBootComponent / Method objects by
\* identity and components / methods map a name to an object identity.
Put(f, k, v) == [x \in (DOMAIN f) \cup {k} |-> IF x = k THEN v ELSE f[x]]

EmptyMap == [x \in {} |-> x]

ParamStr(p) == _format_type(p.type) \o (IF p.varargs THEN <<"...">> ELSE <<>>) \o <<" ", p.name>>

ParamType(p) == _format_type(p.type) \o (IF p.varargs THEN <<"...">> ELSE <<>>)

RECURSIVE JoinSeq(_, _)
JoinSeq(parts, sep) ==
    IF Len(parts) = 0 THEN <<>>
    ELSE IF Len(parts) = 1 THEN parts[1]
    ELSE parts[1] \o sep \o JoinSeq(Tail(parts), sep)

SigDisp(params) == <<"(">> \o JoinSeq([i \in 1..Len(params) |-> ParamStr(params[i])], <<",", " ">>) \o <<")">>

SigKey(params) == <<"(">> \o JoinSeq([i \in 1..Len(params) |-> ParamType(params[i])], <<",">>) \o <<")">>

TypeFqnUnqualified(context_name, name) ==
    IF HasTok(context_name, "$") THEN context_name \o <<"$">> \o name ELSE name

TypeFqn(context_name, name) ==
    IF HasTok(context_name, "$") THEN context_name \o <<"$">> \o name
    ELSE IF context_name # <<>> THEN context_name \o <<".">> \o name ELSE name

NewMethod(name, signature, parent, parameters, return_type, invs) ==
    [name |-> name, signature |-> signature, parent_component |-> parent, calls |-> <<>>, called_by |-> <<>>,
     parameters |-> parameters, return_type |-> return_type, method_invocations |-> invs,
     start_line |-> 0, end_line |-> 0, source_lines |-> <<>>]

\* the text of a source file as the list of its lines: every file of the
\* catalogue holds its whole text on one line
FileLines(file_path) == << [path |-> file_path, line |-> 1, rstrip |-> FALSE] >>

Min(a, b) == IF a <= b THEN a ELSE b

\* _extract_source_lines for a declaration at line start of a text whose
\* braces balance on that line: the scan for the closing brace ends where it starts
_extract_source_lines(lines, start) ==
    LET end == start
        end_idx == Min(end, Len(lines))
    IN  IF start > 0 /\ end >= start /\ end <= Len(lines) + 1
        THEN IF start - 1 < end_idx
             THEN [lines |-> SubSeq(lines, start, end_idx), start |-> start, end |-> end_idx]
             ELSE [lines |-> <<>>, start |-> start, end |-> start]
        ELSE [lines |-> <<>>, start |-> -1, end |-> -1]

\* the source position of a declaration and the lines it spans
WithSource(m, source_code) ==
    LET x == _extract_source_lines(source_code, 1)
    IN  [m EXCEPT !.source_lines = x.lines, !.start_line = x.start, !.end_line = x.end]

\* _process_method: the two dictionary writes of one method declaration
MethodOp(node, fqn, cid, j, source_code) ==
    [op |-> "method", cid |-> cid, mid |-> [c |-> cid, j |-> j],
     key |-> fqn \o <<".", node.name>> \o SigKey(node.params),
     disp |-> <<node.name>> \o SigDisp(node.params),
     m |-> WithSource(NewMethod(node.name, SigDisp(node.params), cid,
                                [i \in 1..Len(node.params) |-> ParamStr(node.params[i])], <<"void">>, node.invs),
                      source_code)]

\* _process_constructor
ConstructorOp(node, comp_name, fqn, cid, j, source_code) ==
    [op |-> "method", cid |-> cid, mid |-> [c |-> cid, j |-> j],
     key |-> fqn \o <<".", "<init>">> \o SigKey(node.params),
     disp |-> comp_name \o SigDisp(node.params),
     m |-> WithSource(NewMethod("<init>", SigDisp(node.params), cid,
                                [i \in 1..Len(node.params) |-> ParamStr(node.params[i])], comp_name, node.invs),
                      source_code)]

NewComponent(node, context_name, imports, file_path, index) ==
    [name |-> node.name, file_path |-> file_path, component_type |-> _determine_component_type(node),
     index |-> index, methods |-> EmptyMap,
     fields |-> [n \in {node.fields[i].name : i \in 1..Len(node.fields)} |->
                    LET i == CHOOSE k \in 1..Len(node.fields) :
                                 node.fields[k].name = n /\ \A l \in (k+1)..Len(node.fields) : node.fields[l].name # n
                    IN  [name |-> n, field_type |-> _format_type(node.fields[i].type)]],
     imports |-> imports,
     extends |-> [i \in 1..Len(node.extends) |-> _format_type(node.extends[i])],
     implements |-> [i \in 1..Len(node.implements) |-> _format_type(node.implements[i])],
     annotations |-> [i \in 1..Len(node.annotations) |-> <<"@", node.annotations[i]>>],
     package |-> IF HasTok(context_name, "$") THEN BeforeFirst(context_name, "$") ELSE context_name,
     fully_qualified_name |-> TypeFqn(context_name, node.name)]

\* _process_type_declaration as the sequence of its store accesses
RECURSIVE TypeOps(_, _, _, _, _, _)
TypeOps(node, context_name, imports, file_path, index, cid) ==
    LET fqn == TypeFqn(context_name, node.name)
        nm == Len(node.methods)
    IN  << [op |-> "newcomp", cid |-> cid, comp |-> NewComponent(node, context_name, imports, file_path, index)] >>
        \o [j \in 1..nm |-> MethodOp(node.methods[j], fqn, cid, j, FileLines(file_path))]
        \o [j \in 1..Len(node.constructors) |->
                ConstructorOp(node.constructors[j], node.name, fqn, cid, nm + j, FileLines(file_path))]
        \o << [op |-> "storecomp", cid |-> cid, fqn |-> fqn] >>
        \o (IF HasTok(fqn, ".") /\ ~HasTok(fqn, "$")
            THEN << [op |-> "pkgcheck", pkg |-> BeforeLast(fqn, "."), fqn |-> fqn],
                    [op |-> "pkginit", pkg |-> BeforeLast(fqn, "."), fqn |-> fqn],
                    [op |-> "pkgtest", pkg |-> BeforeLast(fqn, "."), fqn |-> fqn],
                    [op |-> "pkgappend", pkg |-> BeforeLast(fqn, "."), fqn |-> fqn] >>
            ELSE <<>>)
        \o Flatten([k \in 1..Len(node.inner) |->
               TypeOps(node.inner[k], fqn, imports, file_path, index \o <<".", "i", ToString(k)>>, cid \o <<k>>)])

\* _parse_java_file on the file with ordinal ford in the file list
FileOps(file, file_path, index, ford) ==
    IF file.status = "unreadable" THEN << [op |-> "error", path |-> file_path, msg |-> "Read encoding error"] >>
    ELSE IF file.status = "syntax" THEN << [op |-> "error", path |-> file_path, msg |-> "JavaSyntaxError"] >>
    ELSE Flatten([k \in 1..Len(file.types) |->
             TypeOps(file.types[k], file.package, [i \in 1..Len(file.imports) |-> file.imports[i].path],
                     file_path, index, <<ford, k>>)])

\* one store access; loc is the executing task's local state
ExecOp(st, loc, o) ==
    CASE o.op = "error" ->
           [st |-> [st EXCEPT !.parse_errors = Append(@, <<o.path, o.msg>>)], loc |-> loc]
      [] o.op = "newcomp" ->
           [st |-> [st EXCEPT !.cheap = Put(@, o.cid, o.comp)], loc |-> loc]
      [] o.op = "method" ->
           [st |-> [st EXCEPT !.methods = Put(@, o.key, o.mid),
                              !.mheap = Put(@, o.mid, o.m),
                              !.cheap = Put(@, o.cid, [st.cheap[o.cid] EXCEPT !.methods = Put(@, o.disp, o.mid)])],
            loc |-> loc]
      [] o.op = "storecomp" ->
           [st |-> [st EXCEPT !.components = Put(@, o.fqn, o.cid)], loc |-> loc]
      [] o.op = "pkgcheck" ->
           [st |-> st, loc |-> [loc EXCEPT !.haslist = o.pkg \in DOMAIN st.package_structure]]
      [] o.op = "pkginit" ->
           [st |-> IF loc.haslist THEN st ELSE [st EXCEPT !.package_structure = Put(@, o.pkg, <<>>)], loc |-> loc]
      [] o.op = "pkgtest" ->
           [st |-> st, loc |-> [loc EXCEPT !.absent = o.fqn \notin SeqToSet(st.package_structure[o.pkg])]]
      [] o.op = "pkgappend" ->
           [st |-> IF loc.absent
                   THEN [st EXCEPT !.package_structure = Put(@, o.pkg, Append(st.package_structure[o.pkg], o.fqn))]
                   ELSE st,
            loc |-> loc]

Loc0 == [haslist |-> FALSE, absent |-> FALSE]

\* the store accesses ops executed in their order from the stores and local state x
RECURSIVE RunFrom(_, _)
RunFrom(x, ops) ==
    IF Len(ops) = 0 THEN x
    ELSE IF Len(ops) = 1 THEN ExecOp(x.st, x.loc, ops[1])
    ELSE LET half == Len(ops) \div 2
         IN  CHOOSE out \in {RunFrom(r, SubSeq(ops, half + 1, Len(ops))) : r \in {RunFrom(x, SubSeq(ops, 1, half))}} : TRUE

RunOps(st, loc, ops) == RunFrom([st |-> st, loc |-> loc], ops).st


\* ----------------------------------------------------------- symbol resolver
java_lang_types ==
    {"String", "Object", "Integer", "Boolean", "Long", "Double", "Float", "Character", "Byte", "Short",
     "Void", "Class", "System", "Math", "Thread", "Runnable", "Exception", "RuntimeException", "Error",
     "Throwable", "Override", "Deprecated", "SuppressWarnings"}

java_util_types == {"List", "Map", "Set", "Collection", "Optional", "ArrayList", "HashMap", "HashSet"}

\* step 2 of _resolve_type_name: the loop over the current and the outer scopes;
\* scope_fqn is current_scope_comp.fully_qualified_name, <<>> when no match
RECURSIVE InnerScopeMatch(_, _, _)
InnerScopeMatch(st, base_name, scope_fqn) ==
    LET potential_inner_fqn == scope_fqn \o <<"$">> \o base_name
        outer_fqn == BeforeLast(scope_fqn, "$")
    IN  IF potential_inner_fqn \in DOMAIN st.components THEN potential_inner_fqn
        ELSE IF HasTok(scope_fqn, "$") /\ outer_fqn \in DOMAIN st.components
             THEN InnerScopeMatch(st, base_name, st.cheap[st.components[outer_fqn]].fully_qualified_name)
             ELSE <<>>

\* the first element of a list of imports that is in the set hits, <<>> if none
FirstImport(imports, hits) ==
    IF \E i \in 1..Len(imports) : imports[i] \in hits
    THEN imports[CHOOSE i \in 1..Len(imports) : imports[i] \in hits /\ \A j \in 1..(i-1) : imports[j] \notin hits]
    ELSE <<>>

_resolve_type_name(st, type_name, context_comp) ==
    LET base_name == BeforeFirst(type_name, "<")
        generic_part == IF HasTok(type_name, "<") THEN SubSeq(type_name, Len(base_name) + 1, Len(type_name)) ELSE <<>>
        inner == InnerScopeMatch(st, base_name, context_comp.fully_qualified_name)
        direct == FirstImport(context_comp.imports,
                      {imp \in SeqToSet(context_comp.imports) : EndsWith(imp, <<".">> \o base_name)})
        potential_pkg_fqn == context_comp.package \o <<".">> \o base_name
        wild == FirstImport(context_comp.imports,
                    {imp \in SeqToSet(context_comp.imports) :
                        /\ EndsWith(imp, <<".", "*">>)
                        /\ (SubSeq(imp, 1, Len(imp) - 1) \o base_name) \in DOMAIN st.components})
    IN  IF HasTok(base_name, ".") THEN type_name
        ELSE IF inner # <<>> THEN inner \o generic_part
        ELSE IF direct # <<>> THEN direct \o generic_part
        ELSE IF context_comp.package # <<>> /\ potential_pkg_fqn \in DOMAIN st.components
             THEN potential_pkg_fqn \o generic_part
        ELSE IF wild # <<>> THEN SubSeq(wild, 1, Len(wild) - 1) \o base_name \o generic_part
        ELSE IF Len(base_name) = 1 /\ base_name[1] \in java_lang_types
             THEN <<"java", ".", "lang", ".">> \o base_name \o generic_part
        ELSE IF Len(base_name) = 1 /\ base_name[1] \in java_util_types
             THEN <<"java", ".", "util", ".">> \o base_name \o generic_part
        ELSE type_name

ResolveAll(st, names, context_comp) == [i \in 1..Len(names) |-> _resolve_type_name(st, names[i], context_comp)]

StoredCids(st) == {st.components[f] : f \in DOMAIN st.components}

_build_component_relationships(st) ==
    [st EXCEPT !.cheap =
        [c \in DOMAIN st.cheap |->
            IF c \in StoredCids(st)
            THEN [st.cheap[c] EXCEPT !.extends = ResolveAll(st, @, st.cheap[c]),
                                     !.implements = ResolveAll(st, @, st.cheap[c])]
            ELSE st.cheap[c]]]

\* -------------------------------------------------------- call graph builder
ObjectFqn == <<"java", ".", "lang", ".", "Object">>

MatchesAt(st, current_fqn, method_name, arg_count) ==
    {k \in DOMAIN st.methods :
        /\ StartsWith(k, current_fqn \o <<".", method_name, "(">>)
        /\ st.mheap[st.methods[k]].name = method_name
        /\ (arg_count = -1 \/ Len(st.mheap[st.methods[k]].parameters) = arg_count)}

Enqueue(queue, names, visited) == queue \o SelectSeq(names, LAMBDA n : n # <<>> /\ n \notin visited)

SkipEmptyOnly(current_fqn, visited) == current_fqn = <<>>

\* "if not current_fqn or current_fqn in visited: continue"
Skip(current_fqn, visited) == current_fqn = <<>> \/ current_fqn \in visited

\* the while loop of _find_method_in_hierarchy over the FQNs examined so far,
\* in the order of their examination; returns [matches, visited, examined]
RECURSIVE HierarchyLoop(_, _, _, _, _, _)
HierarchyLoop(st, queue, examined, matches, method_name, arg_count) ==
    IF Len(queue) = 0 THEN [matches |-> matches, visited |-> SeqToSet(examined), examined |-> examined]
    ELSE LET current_fqn == Head(queue)
             rest == Tail(queue)
             visited == SeqToSet(examined)
         IN  IF Skip(current_fqn, visited)
             THEN HierarchyLoop(st, rest, examined, matches, method_name, arg_count)
             ELSE LET visited2 == visited \cup {current_fqn}
                      matches2 == matches \cup MatchesAt(st, current_fqn, method_name, arg_count)
                      queue2 ==
                         IF current_fqn \in DOMAIN st.components
                         THEN LET current_comp == st.cheap[st.components[current_fqn]]
                              IN  Enqueue(rest, current_comp.extends \o current_comp.implements, visited2)
                         ELSE IF matches2 = {} /\ current_fqn # ObjectFqn /\ ObjectFqn \notin visited2
                              THEN Append(rest, ObjectFqn)
                              ELSE rest
                  IN  HierarchyLoop(st, queue2, Append(examined, current_fqn), matches2, method_name, arg_count)

ObjectMethodKey(method_name, arg_count) ==
    CASE method_name = "equals" /\ arg_count = 1 -> ObjectFqn \o <<".", "equals", "(">> \o ObjectFqn \o <<")">>
      [] method_name = "hashCode" /\ arg_count = 0 -> ObjectFqn \o <<".", "hashCode", "(", ")">>
      [] method_name = "toString" /\ arg_count = 0 -> ObjectFqn \o <<".", "toString", "(", ")">>
      [] method_name = "getClass" /\ arg_count = 0 -> ObjectFqn \o <<".", "getClass", "(", ")">>
      [] OTHER -> <<>>

FindAboveStart(st, start_fqn, method_name, arg_count) ==
    LET above == IF start_fqn \in DOMAIN st.components
                 THEN st.cheap[st.components[start_fqn]].extends \o st.cheap[st.components[start_fqn]].implements
                 ELSE <<>>
    IN  HierarchyLoop(st, above, <<start_fqn>>, {}, method_name, arg_count).matches

_find_method_in_hierarchy(st, start_fqn, method_name, arg_count) ==
    LET r == HierarchyLoop(st, <<start_fqn>>, <<>>, {}, method_name, arg_count)
    IN  IF r.matches = {} /\ ObjectFqn \in r.visited /\ ObjectMethodKey(method_name, arg_count) \in DOMAIN st.methods
        THEN {ObjectMethodKey(method_name, arg_count)}
        ELSE r.matches

\* parts = p_sig.split(): the parameter strings "Type name" of context_method
ParamMatches(p_sig, qualifier_str) ==
    LET parts == Split(p_sig, " ") IN Len(parts) > 1 /\ parts[Len(parts)] = qualifier_str

\* the target type of an invocation, <<>> for None
TargetFqn(st, inv, context_comp, context_method) ==
    LET qualifier_str == inv.qualifier
        extends_val == context_comp.extends
        has_field == Len(qualifier_str) = 1 /\ qualifier_str[1] \in DOMAIN context_comp.fields
        by_field == _resolve_type_name(st, BeforeFirst(context_comp.fields[qualifier_str[1]].field_type, "<"), context_comp)
        params == context_method.parameters
        has_param == \E i \in 1..Len(params) : ParamMatches(params[i], qualifier_str)
        p_sig == params[CHOOSE i \in 1..Len(params) :
                     ParamMatches(params[i], qualifier_str) /\ \A j \in 1..(i-1) : ~ParamMatches(params[j], qualifier_str)]
        by_param == _resolve_type_name(st, BeforeFirst(Split(p_sig, " ")[1], "<"), context_comp)
        resolved_as_type == _resolve_type_name(st, qualifier_str, context_comp)
    IN  IF qualifier_str = <<>> THEN context_comp.fully_qualified_name
        ELSE IF qualifier_str = <<"this">> THEN context_comp.fully_qualified_name
        ELSE IF qualifier_str = <<"super">>
             THEN IF Len(extends_val) > 0 /\ extends_val[1] # <<>> THEN extends_val[1] ELSE ObjectFqn
        ELSE IF has_field /\ by_field # <<>> THEN by_field
        ELSE IF has_param THEN by_param
        ELSE IF resolved_as_type # qualifier_str \/ HasTok(resolved_as_type, ".") THEN resolved_as_type
        ELSE <<>>

_resolve_method_invocation(st, inv, context_comp, context_method) ==
    LET target_fqn == TargetFqn(st, inv, context_comp, context_method)
    IN  IF target_fqn # <<>> THEN _find_method_in_hierarchy(st, target_fqn, inv.member, inv.nargs) ELSE {}

AppendNew(list, x) == IF x \in SeqToSet(list) THEN list ELSE Append(list, x)

AddCallOneWay(st, g, method_key, target_key) ==
    IF target_key \in g.graph.nodes /\ <<method_key, target_key>> \notin g.graph.edges
    THEN [graph |-> [g.graph EXCEPT !.edges = @ \cup {<<method_key, target_key>>}],
          mheap |-> [g.mheap EXCEPT ![st.methods[method_key]].calls = AppendNew(@, st.methods[target_key])]]
    ELSE g

\* the body of "for target_key in target_method_keys"; g is [graph, mheap]
AddCall(st, g, method_key, target_key) ==
    IF target_key \in g.graph.nodes /\ <<method_key, target_key>> \notin g.graph.edges
    THEN LET caller == st.methods[method_key]
             callee == st.methods[target_key]
             heap1 == [g.mheap EXCEPT ![caller].calls = AppendNew(@, callee)]
         IN  [graph |-> [g.graph EXCEPT !.edges = @ \cup {<<method_key, target_key>>}],
              mheap |-> [heap1 EXCEPT ![callee].called_by = AppendNew(@, caller)]]
    ELSE g

RECURSIVE AddCalls(_, _, _, _)
AddCalls(st, g, method_key, targets) ==
    IF Len(targets) = 0 THEN g
    ELSE AddCalls(st, AddCall(st, g, method_key, targets[1]), method_key, Tail(targets))

RECURSIVE CallsOfMethod(_, _, _, _)
CallsOfMethod(st, g, method_key, invocations) ==
    IF Len(invocations) = 0 THEN g
    ELSE LET method_obj == st.mheap[st.methods[method_key]]
             targets == _resolve_method_invocation(st, invocations[1], st.cheap[method_obj.parent_component], method_obj)
         IN  CallsOfMethod(st, AddCalls(st, g, method_key, SetToSeq(targets)), method_key, Tail(invocations))

RECURSIVE CallsOfMethods(_, _, _)
CallsOfMethods(st, g, keys) ==
    IF Len(keys) = 0 THEN g
    ELSE CallsOfMethods(st, CallsOfMethod(st, g, keys[1], st.mheap[st.methods[keys[1]]].method_invocations), Tail(keys))

\* returns [graph, mheap]
_build_call_graph(st) ==
    CallsOfMethods(st, [graph |-> [nodes |-> DOMAIN st.methods, edges |-> {}], mheap |-> st.mheap],
                   SetToSeq(DOMAIN st.methods))


\* ------------------------------------------------------------- string index
\* file.text is the raw text of a file as the two regular expressions see it:
\* a sequence of [type |-> "identifier" | "literal", s |-> token, len |-> length]
IndexEntries(fqn, file_path, text) ==
    LET words == {text[i] : i \in {j \in 1..Len(text) : text[j].type = "identifier" /\ text[j].len > 2}}
        lits == SelectSeq(text, LAMBDA w : w.type = "literal" /\ w.len > 1)
    IN  [i \in 1..Cardinality(words) |->
            [key |-> LowerName(SetToSeq(words)[i].s), fqn |-> fqn, path |-> file_path,
             original |-> SetToSeq(words)[i].s, type |-> "identifier"]]
        \o [i \in 1..Len(lits) |->
            [key |-> LowerName(lits[i].s), fqn |-> fqn, path |-> file_path, original |-> lits[i].s, type |-> "literal"]]

\* contents maps the path of a readable file to its text
_build_string_index(st, contents) ==
    LET fqns == SetToSeq(DOMAIN st.components)
        all == Flatten([i \in 1..Len(fqns) |->
                   LET file_path == st.cheap[st.components[fqns[i]]].file_path
                   IN  IF file_path \in DOMAIN contents THEN IndexEntries(fqns[i], file_path, contents[file_path]) ELSE <<>>])
    IN  [k \in {all[i].key : i \in 1..Len(all)} |-> SelectSeq(all, LAMBDA e : e.key = k)]

search_string(idx, term) == IF LowerName(term) \in DOMAIN idx THEN idx[LowerName(term)] ELSE <<>>

\* ------------------------------------------------------------ cache manager
NoFile == [format |-> "absent"]

\* Field.__str__ with an empty modifier list
FieldStr(f) == <<" ">> \o f.field_type \o <<" ", f.name>>

\* Method.__str__
MethodStr(st, m) == st.cheap[m.parent_component].name \o <<".", m.name>> \o m.signature

\* Method.to_dict
MethodToDict(st, m) ==
    [name |-> m.name, signature |-> m.signature, return_type |-> m.return_type, parameters |-> m.parameters,
     start_line |-> m.start_line, end_line |-> m.end_line,
     calls |-> [i \in 1..Len(m.calls) |-> MethodStr(st, st.mheap[m.calls[i]])],
     called_by |-> [i \in 1..Len(m.called_by) |-> MethodStr(st, st.mheap[m.called_by[i]])]]

\* SpringBootComponent.to_dict
ComponentToDict(st, c) ==
    [name |-> c.name, file_path |-> c.file_path, component_type |-> c.component_type, index |-> c.index,
     methods |-> [d \in DOMAIN c.methods |-> MethodToDict(st, st.mheap[c.methods[d]])],
     fields |-> [n \in DOMAIN c.fields |-> FieldStr(c.fields[n])],
     imports |-> c.imports, extends |-> c.extends, implements |-> c.implements, annotations |-> c.annotations,
     package |-> c.package, fully_qualified_name |-> c.fully_qualified_name]

\* the blob _save_to_cache pickles at time t
CacheData(st, t) ==
    [format |-> "pickle", wrongtype |-> {},
     project_path |-> project_path, timestamp |-> t,
     components |-> [k \in DOMAIN st.components |-> ComponentToDict(st, st.cheap[st.components[k]])],
     methods |-> [k \in DOMAIN st.methods |-> MethodToDict(st, st.mheap[st.methods[k]])],
     index_structure |-> st.index_structure,
     package_structure |-> st.package_structure,
     string_index |-> st.string_index,
     call_graph_edges |-> st.call_graph.edges,
     parse_errors |-> st.parse_errors]

relevant_extensions ==
    { <<".", "java">>, <<".", "properties">>, <<".", "yml">>, <<".", "yaml">>, <<".", "xml">> }

\* the directories os.walk visits after the in-place filter of dirs
WalkVisits(f, dir) ==
    \A i \in 1..Len(dir) : dir[i] \notin IGNORED_DIRS /\ dir[i][1] # "."

\* the files whose modification time the validation walk reads
WalkedFiles(f) ==
    {p \in f.files : /\ WalkVisits(f, SubSeq(p, 1, Len(p) - 1))
                     /\ \E e \in relevant_extensions : EndsWith(p[Len(p)], e)}

RECURSIVE MaxOf(_)
MaxOf(S) == IF S = {} THEN 0 ELSE LET x == CHOOSE y \in S : TRUE IN IF x >= MaxOf(S \ {x}) THEN x ELSE MaxOf(S \ {x})

latest_modification_time(f, mt) == MaxOf({mt[p] : p \in WalkedFiles(f)})

LowerStartToks ==
    {"p", "q", "x", "java", "util", "lang", "bar", "baz", "m", "run", "f", "g", "e", "l", "a", "b", "io"}

UpperStartToks ==
    {"Foo", "Bar", "I", "J", "C", "U", "Outer", "A", "B", "M", "N", "Map", "Entry", "List", "String", "Object", "Base", "W", "T"}

\* part[0].islower() / .isupper(); "error" stands for the IndexError of ""[0]
FirstIsLower(part) == Len(part) > 0 /\ part[1] \in LowerStartToks

FirstIsUpper(part) == Len(part) > 0 /\ part[1] \in UpperStartToks

\* the scan "for i in range(len(fqn_parts) - 1, 0, -1)" at 1-based position i;
\* returns the 0-based split_point, -1 if none, -2 for the IndexError
RECURSIVE SplitPoint(_, _)
SplitPoint(fqn_parts, i) ==
    IF i <= 1 THEN -1
    ELSE IF HasTok(fqn_parts[i], "(") THEN i - 1
    ELSE IF FirstIsLower(fqn_parts[i])
         THEN IF Len(fqn_parts[i-1]) = 0 THEN -2
              ELSE IF FirstIsUpper(fqn_parts[i-1]) THEN i - 1
              ELSE SplitPoint(fqn_parts, i - 1)
    ELSE SplitPoint(fqn_parts, i - 1)

\* parent FQN derived from the method key, <<"?">> for the skipped method
ParentFqnOfKey(method_key) ==
    LET fqn_parts == Split(method_key, ".")
        split_point == SplitPoint(fqn_parts, Len(fqn_parts))
    IN  IF split_point = -2 THEN <<"?">>
        ELSE IF split_point # -1 THEN Join(SubSeq(fqn_parts, 1, split_point), ".")
        ELSE Join(SubSeq(fqn_parts, 1, Len(fqn_parts) - 1), ".")

ComponentRequired == {"name", "file_path", "component_type", "index"}

\* reconstruction of the components: one object per complete record
LoadComponents(st, cached_components) ==
    LET fqns == SetToSeq({k \in DOMAIN cached_components : ComponentRequired \subseteq DOMAIN cached_components[k]})
        obj(k) == LET d == cached_components[k]
                  IN  [name |-> d.name, file_path |-> d.file_path, component_type |-> d.component_type,
                       index |-> d.index, methods |-> EmptyMap, fields |-> EmptyMap,
                       imports |-> IF "imports" \in DOMAIN d THEN d.imports ELSE <<>>,
                       extends |-> IF "extends" \in DOMAIN d THEN d.extends ELSE <<>>,
                       implements |-> IF "implements" \in DOMAIN d THEN d.implements ELSE <<>>,
                       annotations |-> IF "annotations" \in DOMAIN d THEN d.annotations ELSE <<>>,
                       package |-> IF "package" \in DOMAIN d THEN d.package ELSE <<>>,
                       fully_qualified_name |-> IF "fully_qualified_name" \in DOMAIN d THEN d.fully_qualified_name ELSE k]
    IN  [st EXCEPT !.components = [k \in SeqToSet(fqns) |-> <<0, CHOOSE i \in 1..Len(fqns) : fqns[i] = k>>],
                   !.cheap = [c \in (DOMAIN st.cheap) \cup {<<0, i>> : i \in 1..Len(fqns)} |->
                                 IF c \in {<<0, i>> : i \in 1..Len(fqns)} THEN obj(fqns[c[2]]) ELSE st.cheap[c]]]

\* reconstruction of one method record
LoadMethod(st, method_key, d, n) ==
    LET parent_fqn == ParentFqnOfKey(method_key)
    IN  IF parent_fqn = <<"?">> \/ parent_fqn \notin DOMAIN st.components \/ "signature" \notin DOMAIN d THEN st
        ELSE LET cid == st.components[parent_fqn]
                 parent_comp == st.cheap[cid]
                 method_name == IF "name" \in DOMAIN d THEN d.name ELSE "None"
                 mid == [c |-> <<0>>, j |-> n]
                 comp_method_key == (IF method_name = "<init>" THEN parent_comp.name ELSE <<method_name>>) \o d.signature
             IN  [st EXCEPT !.methods = Put(@, method_key, mid),
                            !.mheap = Put(@, mid,
                                          [NewMethod(method_name, d.signature, cid,
                                                     IF "parameters" \in DOMAIN d THEN d.parameters ELSE <<>>,
                                                     IF "return_type" \in DOMAIN d THEN d.return_type ELSE <<>>, <<>>)
                                           EXCEPT !.start_line = IF "start_line" \in DOMAIN d THEN d.start_line ELSE 0,
                                                  !.end_line = IF "end_line" \in DOMAIN d THEN d.end_line ELSE 0]),
                            !.cheap = Put(@, cid, [parent_comp EXCEPT !.methods = Put(@, comp_method_key, mid)])]

RECURSIVE LoadMethods(_, _, _, _)
LoadMethods(st, cached_methods, keys, n) ==
    IF Len(keys) = 0 THEN st
    ELSE LoadMethods(LoadMethod(st, keys[1], cached_methods[keys[1]], n), cached_methods, Tail(keys), n + 1)

RECURSIVE RebuildCallsOnly(_, _, _)
RebuildCallsOnly(st, heap, edges) ==
    IF Len(edges) = 0 THEN heap
    ELSE IF edges[1][1] \in DOMAIN st.methods /\ edges[1][2] \in DOMAIN st.methods
         THEN RebuildCallsOnly(st, [heap EXCEPT ![st.methods[edges[1][1]]].calls = AppendNew(@, st.methods[edges[1][2]])],
                               Tail(edges))
         ELSE RebuildCallsOnly(st, heap, Tail(edges))

\* the loop that rebuilds Method.calls and Method.called_by from the loaded graph
RECURSIVE RebuildLists(_, _, _)
RebuildLists(st, heap, edges) ==
    IF Len(edges) = 0 THEN heap
    ELSE IF edges[1][1] \in DOMAIN st.methods /\ edges[1][2] \in DOMAIN st.methods
         THEN LET caller == st.methods[edges[1][1]]
                  callee == st.methods[edges[1][2]]
                  heap1 == [heap EXCEPT ![caller].calls = AppendNew(@, callee)]
              IN  RebuildLists(st, [heap1 EXCEPT ![callee].called_by = AppendNew(@, caller)], Tail(edges))
         ELSE RebuildLists(st, heap, Tail(edges))

ValidEdgesUnfiltered(edges, nodes) == edges

\* valid_edges: the cached edges between nodes that exist in the graph
ValidEdges(edges, nodes) == {e \in edges : e[1] \in nodes /\ e[2] \in nodes}

EmptyGraph == [nodes |-> {}, edges |-> {}]

\* _load_from_cache; returns [ok, deleted, st]
_load_from_cache(st, blob, f, mt) ==
    LET reject(s) == [ok |-> FALSE, deleted |-> FALSE, st |-> s]
        corrupt(s) == [ok |-> FALSE, deleted |-> TRUE, st |-> s]
        s1 == [st EXCEPT !.index_structure = blob.index_structure,
                         !.package_structure = blob.package_structure,
                         !.string_index = blob.string_index,
                         !.parse_errors = blob.parse_errors,
                         !.components = EmptyMap,
                         !.methods = EmptyMap]
        s2 == LoadComponents(s1, blob.components)
        s3 == LoadMethods(s2, blob.methods, SetToSeq(DOMAIN blob.methods), 1)
        nodes == DOMAIN s3.methods
        s4 == [s3 EXCEPT !.call_graph = [nodes |-> nodes, edges |-> {}]]
        valid_edges == ValidEdges(blob.call_graph_edges, nodes)
        s5 == [s4 EXCEPT !.call_graph = [nodes |-> nodes, edges |-> valid_edges],
                         !.mheap = RebuildLists(s4, s4.mheap, SetToSeq(valid_edges))]
    IN  IF blob.format = "absent" THEN reject(st)
        ELSE IF blob.format = "truncated" THEN corrupt(st)
        ELSE IF blob.format = "badprotocol" THEN reject(st)
        ELSE IF blob.project_path # project_path THEN reject(st)
        ELSE IF "timestamp" \in blob.wrongtype THEN corrupt(st)
        ELSE IF blob.timestamp = 0 THEN reject(st)
        ELSE IF latest_modification_time(f, mt) > blob.timestamp THEN reject(st)
        ELSE IF "components" \in blob.wrongtype THEN corrupt(s1)
        ELSE IF "methods" \in blob.wrongtype THEN corrupt(s2)
        ELSE IF "call_graph_edges" \in blob.wrongtype THEN corrupt(s4)
        ELSE IF "edge" \in blob.wrongtype THEN reject(s4)
        ELSE [ok |-> TRUE, deleted |-> FALSE, st |-> s5]


\* ------------------------------------------------------------------ query API
LowerSeq(s) == [i \in 1..Len(s) |-> Lower(s[i])]

\* sub in s
Contains(s, sub) == \E i \in 0..(Len(s) - Len(sub)) : SubSeq(s, i + 1, i + Len(sub)) = sub

\* the default of max_depth in _get_method_calls
DefaultCallDepth == 3

\* the default of max_depth in _get_method_callers
DefaultCallerDepth == 1

\* one entry of a call tree; kids is the list under "children" or "parents"
FlowEntry(st, key, kids) ==
    LET m == st.mheap[st.methods[key]]
    IN  [method |-> MethodStr(st, m), method_key |-> key, component |-> st.cheap[m.parent_component].name,
         component_type |-> st.cheap[m.parent_component].component_type, kids |-> kids]

\* the sorted list of entries is modelled as the set of its entries
RECURSIVE _get_method_calls(_, _, _, _, _)
_get_method_calls(st, method_key, depth, max_depth, visited) ==
    IF depth > max_depth \/ method_key \in visited \/ method_key \notin st.call_graph.nodes THEN {}
    ELSE LET successors == {e[2] : e \in {x \in st.call_graph.edges : x[1] = method_key}}
         IN  {FlowEntry(st, target_key,
                        IF depth < max_depth
                        THEN _get_method_calls(st, target_key, depth + 1, max_depth, visited \cup {method_key})
                        ELSE {}) : target_key \in successors \cap DOMAIN st.methods}

RECURSIVE _get_method_callers(_, _, _, _, _)
_get_method_callers(st, method_key, depth, max_depth, visited) ==
    IF depth > max_depth \/ method_key \in visited \/ method_key \notin st.call_graph.nodes THEN {}
    ELSE LET predecessors == {e[1] : e \in {x \in st.call_graph.edges : x[2] = method_key}}
         IN  {FlowEntry(st, source_key,
                        IF depth < max_depth
                        THEN _get_method_callers(st, source_key, depth + 1, max_depth, visited \cup {method_key})
                        ELSE {}) : source_key \in predecessors \cap DOMAIN st.methods}

\* the part of analyze_method_flow that reads the source lines of a method whose
\* lines are not held; returns the lines, <<>> when nothing could be read
ReadSourceLines(f, method_obj, file_path) ==
    LET all_lines == FileLines(file_path)
        start_idx == method_obj.start_line - 1
        end_idx == method_obj.end_line
    IN  IF /\ method_obj.start_line > 0
           /\ method_obj.end_line > 0
           /\ file_path \in f.files
           /\ 0 <= start_idx /\ start_idx < end_idx /\ end_idx <= Len(all_lines)
        THEN [i \in 1..(end_idx - start_idx) |-> [all_lines[start_idx + i] EXCEPT !.rstrip = TRUE]]
        ELSE <<>>

\* analyze_method_flow; returns [result, st], st being the stores after the call
analyze_method_flow(st, f, method_key) ==
    LET key_lower == LowerSeq(method_key)
        matches == SelectSeq(SetToSeq(DOMAIN st.methods), LAMBDA k : Contains(LowerSeq(k), key_lower))
        canonical_key == IF method_key \in DOMAIN st.methods THEN method_key ELSE matches[1]
        mid == st.methods[canonical_key]
        method_obj == st.mheap[mid]
        parent == st.cheap[method_obj.parent_component]
        read == IF method_obj.source_lines = <<>> THEN ReadSourceLines(f, method_obj, parent.file_path) ELSE <<>>
        source_lines == IF read # <<>> THEN read ELSE method_obj.source_lines
        st2 == IF read # <<>> THEN [st EXCEPT !.mheap = [@ EXCEPT ![mid].source_lines = read]] ELSE st
    IN  IF method_key \notin DOMAIN st.methods /\ Len(matches) > 1
        THEN [result |-> [kind |-> "multiple_matches", matches |-> [i \in 1..Len(matches) |-> st.methods[matches[i]]]],
              st |-> st]
        ELSE IF method_key \notin DOMAIN st.methods /\ Len(matches) = 0
        THEN [result |-> [kind |-> "none"], st |-> st]
        ELSE [result |-> [kind |-> "flow", method |-> MethodStr(st, method_obj), method_key |-> canonical_key,
                          component |-> parent.name, component_type |-> parent.component_type,
                          signature |-> method_obj.signature, source |-> source_lines,
                          calls |-> _get_method_calls(st2, canonical_key, 0, DefaultCallDepth, {}),
                          called_by |-> _get_method_callers(st2, canonical_key, 0, DefaultCallerDepth, {})],
              st |-> st2]

\* search_method: the sorted list is modelled as the set of the methods in it
search_method(st, name_part) ==
    {st.methods[k] : k \in {x \in DOMAIN st.methods :
                               Contains(<<Lower(st.mheap[st.methods[x]].name)>>, LowerSeq(name_part))}}

known_spring_types_lower == {LowerName(SPRING_NAMES[j]) : j \in 1..Len(SPRING_NAMES)}

\* str.capitalize() on an annotation name
Capitalize(t) ==
    CASE t = "RestController" -> "Restcontroller"
      [] t = "service" -> "Service"
      [] OTHER -> t

\* the spring annotations of a component, in their order; an annotation is <<"@", name>>
SpringAnnotations(c) == SelectSeq(c.annotations, LAMBDA a : LowerName(a[2]) \in known_spring_types_lower)

\* get_spring_components; filter "" stands for None; returns [result, st]
get_spring_components(st, component_type_filter) ==
    LET target_type_lower == LowerName(component_type_filter)
        is_spring_type(c) ==
            LowerName(c.component_type) \in known_spring_types_lower \/ SpringAnnotations(c) # <<>>
        refines(c) ==
            /\ is_spring_type(c)
            /\ component_type_filter = ""
            /\ LowerName(c.component_type) \notin known_spring_types_lower
        match(c) ==
            /\ is_spring_type(c)
            /\ \/ component_type_filter = ""
               \/ target_type_lower = LowerName(c.component_type)
               \/ target_type_lower = "controller" /\ LowerName(c.component_type) = "restcontroller"
    IN  [result |-> {fqn \in DOMAIN st.components : match(st.cheap[st.components[fqn]])},
         st |-> [st EXCEPT !.cheap =
                    [cid \in DOMAIN st.cheap |->
                        IF cid \in StoredCids(st) /\ refines(st.cheap[cid])
                        THEN [st.cheap[cid] EXCEPT !.component_type = Capitalize(SpringAnnotations(st.cheap[cid])[1][2])]
                        ELSE st.cheap[cid]]]]

get_parse_errors(st) == st.parse_errors

\* debug_annotations: the annotations in use and the number of components of each type
debug_annotations(st) ==
    LET comps == {st.cheap[cid] : cid \in StoredCids(st)}
    IN  [annotations |-> UNION {SeqToSet(c.annotations) : c \in comps},
         summary |-> [t \in {c.component_type : c \in comps} |->
                         Cardinality({cid \in StoredCids(st) : st.cheap[cid].component_type = t})]]

\* ------------------------------------------------------------ source files
Name(t) == <<t>>

Pkg_p == <<"p">>

Pkg_q == <<"q">>

NoParams == <<>>

\* package p; interface I { void m(); }  class C implements I { void m(){} }
\* class U { I f; void run(){ f.m(); this.baz(); baz(); } void baz(){} void baz(String s){} }
File_Dispatch ==
    JavaFile(Pkg_p, <<>>,
        << TypeDecl("Interface", Name("I"), <<>>, <<>>, <<>>, << MethodDecl("m", NoParams, <<>>) >>, <<>>),
           TypeDecl("Class", Name("C"), <<>>, << TypeRef("I") >>, <<>>, << MethodDecl("m", NoParams, <<>>) >>, <<>>),
           TypeDecl("Class", Name("U"), <<>>, <<>>, << [name |-> "f", type |-> TypeRef("I")] >>,
                    << MethodDecl("run", NoParams,
                           << Inv(<<"f">>, "m", 0), Inv(<<"this">>, "baz", 0), Inv(<<>>, "baz", 0) >>),
                       MethodDecl("baz", NoParams, <<>>),
                       MethodDecl("baz", << Param(TypeRef("String"), "s") >>, <<>>) >>, <<>>) >>,
        << Word("run", 3), Word("Run", 3), Word("f", 1), Literal("baz", 3) >>)

\* import x.Foo$Bar;  class Foo { Bar b; void bar(){ b.baz(); } }  class Foo$Bar { void baz(){} }
\* class B extends Foo { void g(){ super.bar(); } }
File_Default ==
    JavaFile(<<>>, << Import(<<"x", ".", "Foo", "$", "Bar">>, FALSE) >>,
        << TypeDecl("Class", Name("Foo"), <<>>, <<>>, << [name |-> "b", type |-> TypeRef("Bar")] >>,
                    << MethodDecl("bar", NoParams, << Inv(<<"b">>, "baz", 0) >>) >>, <<>>),
           TypeDecl("Class", <<"Foo", "$", "Bar">>, <<>>, <<>>, <<>>, << MethodDecl("baz", NoParams, <<>>) >>, <<>>),
           TypeDecl("Class", Name("B"), << TypeRef("Foo") >>, <<>>, <<>>,
                    << MethodDecl("g", NoParams, << Inv(<<"super">>, "bar", 0) >>) >>, <<>>) >>,
        << Word("Foo", 3) >>)

\* package p; class Outer { class A { void m(){} } class M { class N extends A { void g(){ m(); } } } }
File_Nested ==
    JavaFile(Pkg_p, <<>>,
        << TypeDecl("Class", Name("Outer"), <<>>, <<>>, <<>>, <<>>,
              << TypeDecl("Class", Name("A"), <<>>, <<>>, <<>>, << MethodDecl("m", NoParams, <<>>) >>, <<>>),
                 TypeDecl("Class", Name("M"), <<>>, <<>>, <<>>, <<>>,
                    << TypeDecl("Class", Name("N"), << TypeRef("A") >>, <<>>, <<>>,
                                << MethodDecl("g", NoParams, << Inv(<<>>, "m", 0) >>) >>, <<>>) >>) >>) >>,
        << Word("Outer", 5) >>)

\* package p; class U { void run(){} void g(){ run(); run(); } }      (a second declaration of p.U)
File_Duplicate ==
    JavaFile(Pkg_p, <<>>,
        << TypeDecl("Class", Name("U"), <<>>, <<>>, <<>>,
                    << MethodDecl("run", NoParams, <<>>),
                       MethodDecl("g", NoParams, << Inv(<<>>, "run", 0), Inv(<<>>, "run", 0) >>) >>, <<>>) >>,
        << Literal("x", 1) >>)

\* package q; import p.I; import r.*;
\* class W implements I { I f; void bar(Map.Entry e, java.util.List l){ f.m(); l.size(); m(); } void m(){} }
\* class J extends List<String> implements K { void g(){ J.h(); } static void h(){} }
File_Hidden ==
    JavaFile(Pkg_q, << Import(<<"p", ".", "I">>, FALSE), Import(<<"r">>, TRUE) >>,
        << TypeDecl("Class", Name("W"), <<>>, << TypeRef("I") >>, << [name |-> "f", type |-> TypeRef("I")] >>,
                    << MethodDecl("bar", << Param(TypeSub("Map", TypeRef("Entry")), "e"),
                                            Param(TypeSub("java", TypeSub("util", TypeRef("List"))), "l") >>,
                           << Inv(<<"f">>, "m", 0), Inv(<<"l">>, "size", 0), Inv(<<>>, "m", 0) >>),
                       MethodDecl("m", NoParams, <<>>) >>, <<>>),
           TypeDecl("Class", Name("J"), << TypeGen("List", << TypeRef("String") >>) >>, << TypeRef("K") >>, <<>>,
                    << MethodDecl("g", NoParams, << Inv(<<"J">>, "h", 0) >>),
                       MethodDecl("h", NoParams, <<>>) >>, <<>>) >>,
        << Word("bar", 3) >>)

\* package q;
\* @Service class U { void a(){ b(); c(); } void b(){ c(); } void c(){ d(); } void d(){ e(); a(); }
\*                    void e(){ f(); } void f(){} void s(){ s(); } void run(){} }
File_Cycle ==
    JavaFile(Pkg_q, <<>>,
        << [TypeDecl("Class", Name("U"), <<>>, <<>>, <<>>,
                     << MethodDecl("a", NoParams, << Inv(<<>>, "b", 0), Inv(<<>>, "c", 0) >>),
                        MethodDecl("b", NoParams, << Inv(<<>>, "c", 0) >>),
                        MethodDecl("c", NoParams, << Inv(<<>>, "d", 0) >>),
                        MethodDecl("d", NoParams, << Inv(<<>>, "e", 0), Inv(<<>>, "a", 0) >>),
                        MethodDecl("e", NoParams, << Inv(<<>>, "f", 0) >>),
                        MethodDecl("f", NoParams, <<>>),
                        MethodDecl("s", NoParams, << Inv(<<>>, "s", 0) >>),
                        MethodDecl("run", NoParams, <<>>) >>, <<>>) EXCEPT !.annotations = <<"Service">>] >>,
        << Word("run", 3) >>)

\* class U { void run(){} }                                           (default package)
File_Bare ==
    JavaFile(<<>>, <<>>,
        << TypeDecl("Class", Name("U"), <<>>, <<>>, <<>>, << MethodDecl("run", NoParams, <<>>) >>, <<>>) >>,
        << Word("run", 3) >>)

File_Syntax == BrokenFile("syntax", << Word("oops", 4) >>)

\* package r; class K { } class I { void m(){} }
File_Wild ==
    JavaFile(<<"r">>, <<>>,
        << TypeDecl("Class", Name("K"), <<>>, <<>>, <<>>, <<>>, <<>>),
           TypeDecl("Class", Name("I"), <<>>, <<>>, <<>>, << MethodDecl("m", NoParams, <<>>) >>, <<>>) >>,
        << Word("class", 5) >>)

\* package h;
\* class A extends B { void g(){ m(); } }   class B extends A { void m(){} void m(int x){} }
\* class S extends S { void g(){ m(); } }
\* interface K { void m(); }   interface I extends K { void m(); }   interface J extends K { }
\* class D implements I, J { void g(){ m(); } }
\* class G<T> { void m(){} }   class E extends G<String> { void g(){ m(); } }
File_Loop ==
    JavaFile(<<"h">>, <<>>,
        << TypeDecl("Class", Name("A"), << TypeRef("B") >>, <<>>, <<>>,
                    << MethodDecl("g", NoParams, << Inv(<<>>, "m", 0) >>) >>, <<>>),
           TypeDecl("Class", Name("B"), << TypeRef("A") >>, <<>>, <<>>,
                    << MethodDecl("m", NoParams, <<>>),
                       MethodDecl("m", << Param(TypeRef("int"), "x") >>, <<>>) >>, <<>>),
           TypeDecl("Class", Name("S"), << TypeRef("S") >>, <<>>, <<>>,
                    << MethodDecl("g", NoParams, << Inv(<<>>, "m", 0) >>) >>, <<>>),
           TypeDecl("Interface", Name("K"), <<>>, <<>>, <<>>, << MethodDecl("m", NoParams, <<>>) >>, <<>>),
           TypeDecl("Interface", Name("I"), << TypeRef("K") >>, <<>>, <<>>,
                    << MethodDecl("m", NoParams, <<>>) >>, <<>>),
           TypeDecl("Interface", Name("J"), << TypeRef("K") >>, <<>>, <<>>, <<>>, <<>>),
           TypeDecl("Class", Name("D"), <<>>, << TypeRef("I"), TypeRef("J") >>, <<>>,
                    << MethodDecl("g", NoParams, << Inv(<<>>, "m", 0) >>) >>, <<>>),
           TypeDecl("Class", Name("G"), <<>>, <<>>, <<>>, << MethodDecl("m", NoParams, <<>>) >>, <<>>),
           TypeDecl("Class", Name("E"), << TypeGen("G", << TypeRef("String") >>) >>, <<>>, <<>>,
                    << MethodDecl("g", NoParams, << Inv(<<>>, "m", 0) >>) >>, <<>>) >>,
        << Word("extends", 7) >>)

\* a file that open() cannot read
File_Unreadable == BrokenFile("unreadable", <<>>)

Dir_mvn == <<".", "mvn">>

N_A == <<"A", ".", "java">>

N_B == <<"B", ".", "JAVA">>

N_C == <<"C", ".", "java">>

\* the candidate source files of a project: path |-> content
Candidates ==
    ( << N_A >> :> File_Dispatch ) @@ ( << N_C >> :> File_Default ) @@ ( << <<"src">>, N_A >> :> File_Nested )
    @@ ( << <<"src">>, N_C >> :> File_Duplicate ) @@ ( << Dir_mvn, N_A >> :> File_Hidden )
    @@ ( << N_B >> :> File_Syntax )

\* the candidate source files of a project whose type hierarchy is searched
HierarchyCandidates ==
    ( << N_A >> :> File_Loop ) @@ ( << N_C >> :> File_Dispatch ) @@ ( << <<"src">>, N_A >> :> File_Hidden )

\* the candidate source files of a project whose type names are resolved
ResolveCandidates ==
    ( << N_A >> :> File_Hidden ) @@ ( << N_C >> :> File_Wild ) @@ ( << <<"src">>, N_A >> :> File_Default )

\* the candidate source files of a project whose call flows are queried
FlowCandidates ==
    ( << N_A >> :> File_Dispatch ) @@ ( << N_C >> :> File_Cycle ) @@ ( << <<"src">>, N_A >> :> File_Bare )
    @@ ( << N_B >> :> File_Syntax )

\* ------------------------------------------------------------ state machine
St ==
    [components |-> components, methods |-> methods, package_structure |-> package_structure,
     parse_errors |-> parse_errors, cheap |-> cheap, mheap |-> mheap, index_structure |-> index_structure,
     string_index |-> string_index, call_graph |-> call_graph]

SetStores(s) ==
    /\ components' = s.components
    /\ methods' = s.methods
    /\ package_structure' = s.package_structure
    /\ parse_errors' = s.parse_errors
    /\ cheap' = s.cheap
    /\ mheap' = s.mheap
    /\ index_structure' = s.index_structure
    /\ string_index' = s.string_index
    /\ call_graph' = s.call_graph

\* the stores of a newly constructed explorer (__init__)
FreshStores ==
    [components |-> EmptyMap, methods |-> EmptyMap, package_structure |-> EmptyMap, parse_errors |-> <<>>,
     cheap |-> EmptyMap, mheap |-> EmptyMap, index_structure |-> EmptyMap, string_index |-> EmptyMap,
     call_graph |-> EmptyGraph]

Hist0 == [session |-> 1, touches |-> 0, touched |-> FALSE, fault |-> "none", origin |-> "none",
          load |-> "none", actor |-> "main", fresh |-> EmptyMap, queries |-> 0, read |-> 0]

Prefixes(path) == {SubSeq(path, 1, k) : k \in 1..(Len(path) - 1)}

\* the project directory holding the source files Fs, after __init__ created the cache directory
ProjectFs(Fs, bulk) ==
    [dirs |-> {project_path, cache_dir} \cup UNION {Prefixes(path) : path \in Fs}, files |-> Fs, bulk |-> bulk]

\* the state in which the engine is at position p over file system f
InitAt(f, c, p) ==
    /\ fs = f
    /\ content = c
    /\ mtime = [path \in f.files |-> 1]
    /\ now = 1
    /\ cache_file = NoFile
    /\ pc = p
    /\ index_structure = FreshStores.index_structure
    /\ components = EmptyMap
    /\ methods = EmptyMap
    /\ package_structure = EmptyMap
    /\ parse_errors = <<>>
    /\ string_index = EmptyMap
    /\ call_graph = EmptyGraph
    /\ cheap = EmptyMap
    /\ mheap = EmptyMap
    /\ tasks = <<>>
    /\ ret = [op |-> "none"]
    /\ hist = Hist0

InitWith(f, c) == InitAt(f, c, "ready")

Init ==
    \E Fs \in SUBSET (DOMAIN Candidates) :
        /\ Cardinality(Fs) <= MaxFiles
        /\ InitWith(ProjectFs(Fs, 0), [path \in Fs |-> Candidates[path]])

\* the source files of the project in the order _parse_java_files visits them
JavaFiles == _find_files_by_type(index_structure, "java")

ParallelThreshold == 50

num_files == Len(JavaFiles) + fs.bulk

use_parallel == num_files > ParallelThreshold

\* what is compared between a fresh build and a loaded cache
View(s) ==
    [components |-> [k \in DOMAIN s.components |->
                        LET c == s.cheap[s.components[k]]
                        IN  [component_type |-> c.component_type, package |-> c.package, imports |-> c.imports,
                             annotations |-> c.annotations, extends |-> c.extends, implements |-> c.implements,
                             fields |-> c.fields, methods |-> DOMAIN c.methods]],
     methods |-> DOMAIN s.methods,
     nodes |-> s.call_graph.nodes,
     edges |-> s.call_graph.edges]

\* analyze_project, first statement: self._load_from_cache()
LoadFromCache ==
    /\ pc = "ready"
    /\ LET r == _load_from_cache(St, cache_file, fs, mtime)
       IN  /\ SetStores(r.st)
           /\ cache_file' = IF r.deleted THEN NoFile ELSE cache_file
           /\ pc' = IF r.ok THEN "done" ELSE "structure"
           /\ hist' = [hist EXCEPT !.load = IF cache_file = NoFile THEN "nofile"
                                            ELSE IF r.ok THEN "accepted"
                                            ELSE IF r.deleted THEN "deleted" ELSE "rejected",
                                   !.origin = IF r.ok THEN "cache" ELSE "none",
                                   !.actor = "main"]
    /\ UNCHANGED <<fs, content, mtime, now, tasks, ret>>

BuildProjectStructure ==
    /\ pc = "structure"
    /\ index_structure' = _build_project_structure(fs)
    /\ pc' = "parse"
    /\ hist' = [hist EXCEPT !.actor = "main"]
    /\ UNCHANGED <<env, components, methods, package_structure, parse_errors, string_index, call_graph,
                   cheap, mheap, tasks, ret>>

\* the file list up to its first failing file
FirstFailure ==
    LET bad == {i \in 1..Len(JavaFiles) : content[JavaFiles[i].path].status # "ok"}
    IN  IF bad = {} THEN Len(JavaFiles) ELSE CHOOSE i \in bad : \A j \in bad : i <= j

AllFileOpsAborting ==
    Flatten([i \in 1..FirstFailure |-> FileOps(content[JavaFiles[i].path], JavaFiles[i].path, JavaFiles[i].index, i)])

AllFileOps ==
    Flatten([i \in 1..Len(JavaFiles) |-> FileOps(content[JavaFiles[i].path], JavaFiles[i].path, JavaFiles[i].index, i)])

\* _parse_java_files with the sequential parser
ParseJavaFilesSequential ==
    /\ pc = "parse"
    /\ ~use_parallel
    /\ SetStores(RunOps(St, Loc0, AllFileOps))
    /\ pc' = "rel"
    /\ hist' = [hist EXCEPT !.actor = "main", !.read = now]
    /\ UNCHANGED <<env, tasks, ret>>

BuildComponentRelationships ==
    /\ pc = "rel"
    /\ SetStores(_build_component_relationships(St))
    /\ pc' = "graph"
    /\ hist' = [hist EXCEPT !.actor = "main"]
    /\ UNCHANGED <<env, tasks, ret>>

BuildCallGraph ==
    /\ pc = "graph"
    /\ LET g == _build_call_graph(St)
       IN  /\ call_graph' = g.graph
           /\ mheap' = g.mheap
    /\ pc' = "strings"
    /\ hist' = [hist EXCEPT !.actor = "main"]
    /\ UNCHANGED <<env, index_structure, components, methods, package_structure, parse_errors, string_index,
                   cheap, tasks, ret>>

BuildStringIndex ==
    /\ pc = "strings"
    /\ string_index' = _build_string_index(St, [path \in DOMAIN content |-> content[path].text])
    /\ pc' = "save"
    /\ hist' = [hist EXCEPT !.actor = "main"]
    /\ UNCHANGED <<env, index_structure, components, methods, package_structure, parse_errors, call_graph,
                   cheap, mheap, tasks, ret>>

\* _save_to_cache: the time stamp is taken when the blob is assembled
SaveToCache ==
    /\ pc = "save"
    /\ now' = now + 1
    /\ cache_file' = CacheData(St, now')
    /\ pc' = "done"
    /\ hist' = [hist EXCEPT !.origin = "build", !.touched = FALSE, !.fault = "none", !.fresh = View(St),
                            !.actor = "main"]
    /\ UNCHANGED <<fs, content, mtime, engine, tasks, ret>>

\* the process ends and a new explorer is constructed on the same root
NewExplorer ==
    /\ pc = "done"
    /\ hist.session < MaxSessions
    /\ SetStores(FreshStores)
    /\ pc' = "ready"
    /\ tasks' = <<>>
    /\ ret' = [op |-> "none"]
    /\ hist' = [hist EXCEPT !.session = @ + 1, !.origin = "none", !.load = "none", !.actor = "main",
                            !.queries = 0]
    /\ UNCHANGED env

\* some process sets the modification time of a file to the current time
Touch ==
    /\ pc = "done"
    /\ hist.touches < MaxTouches
    /\ \E path \in fs.files :
          /\ now' = now + 1
          /\ mtime' = [mtime EXCEPT ![path] = now']
    /\ hist' = [hist EXCEPT !.touches = @ + 1, !.touched = TRUE, !.actor = "env"]
    /\ UNCHANGED <<fs, content, cache_file, pc, engine, tasks, ret>>

\* some process modifies a file while analyze_project is between the parsing
\* of the files and the writing of the cache
TouchDuringAnalysis ==
    /\ pc \in {"rel", "graph", "strings", "save"}
    /\ hist.touches < MaxTouches
    /\ \E path \in fs.files :
          /\ now' = now + 1
          /\ mtime' = [mtime EXCEPT ![path] = now']
    /\ hist' = [hist EXCEPT !.touches = @ + 1, !.touched = TRUE, !.actor = "env"]
    /\ UNCHANGED <<fs, content, cache_file, pc, engine, tasks, ret>>

FaultKinds ==
    {"truncated", "badprotocol", "timestamp_type", "components_type", "methods_type", "edges_type",
     "edge_shape", "component_field", "method_field"}

DropField(r, name) == [k \in (DOMAIN r) \ {name} |-> r[k]]

\* the blob b with a fault of the given kind
Damaged(b, kind) ==
    CASE kind = "truncated" -> [b EXCEPT !.format = "truncated"]
      [] kind = "badprotocol" -> [b EXCEPT !.format = "badprotocol"]
      [] kind = "timestamp_type" -> [b EXCEPT !.wrongtype = {"timestamp"}]
      [] kind = "components_type" -> [b EXCEPT !.wrongtype = {"components"}]
      [] kind = "methods_type" -> [b EXCEPT !.wrongtype = {"methods"}]
      [] kind = "edges_type" -> [b EXCEPT !.wrongtype = {"call_graph_edges"}]
      [] kind = "edge_shape" -> [b EXCEPT !.wrongtype = {"edge"}]
      [] kind = "component_field" ->
            LET k == CHOOSE x \in DOMAIN b.components : TRUE
            IN  [b EXCEPT !.components = Put(@, k, DropField(b.components[k], "name"))]
      [] kind = "method_field" ->
            LET k == CHOOSE x \in DOMAIN b.methods : TRUE
            IN  [b EXCEPT !.methods = Put(@, k, DropField(b.methods[k], "signature"))]

\* the cache file is damaged between two runs
DamageCache ==
    /\ pc = "done"
    /\ hist.origin = "build"
    /\ hist.fault = "none"
    /\ cache_file.format = "pickle"
    /\ \E kind \in FaultKinds :
          /\ kind = "component_field" => DOMAIN cache_file.components # {}
          /\ kind = "method_field" => DOMAIN cache_file.methods # {}
          /\ cache_file' = Damaged(cache_file, kind)
          /\ hist' = [hist EXCEPT !.fault = kind, !.actor = "env"]
    /\ UNCHANGED <<fs, content, mtime, now, pc, engine, tasks, ret>>

ResolveInputs ==
    { <<"I">>, <<"Foo">>, <<"Bar">>, <<"Foo", "$", "Bar">>, <<"A">>, <<"Zed">>, <<"String">>,
      <<"List", "<", "String", ">">>, <<"p", ".", "I">>, <<"K">> }

\* _resolve_type_name applied to a name, and again to its result
ResolveTypeName ==
    /\ pc = "done"
    /\ \E n \in ResolveInputs \cup DOMAIN components, k \in DOMAIN components :
          LET c == cheap[components[k]]
              r == _resolve_type_name(St, n, c)
          IN  ret' = [op |-> "resolve", name |-> n, context |-> k, result |-> r,
                      again |-> _resolve_type_name(St, r, c)]
    /\ hist' = [hist EXCEPT !.actor = "main"]
    /\ UNCHANGED <<env, pc, engine, tasks>>

\* get_node_by_index on the index of a node of the tree or on another argument
IndexInputs ==
    {[isstr |-> TRUE, text |-> n.index] : n \in TreeNodes(index_structure)}
    \cup {[isstr |-> TRUE, text |-> t] : t \in { <<>>, <<"1">>, <<"0", ".", "1">>, <<"1", ".", "1">>, <<"x">>,
                                                  <<ToString(MaxIdx)>>, <<"-1">>, <<"+1">>,
                                                  <<"1", ".", ".", "1">> }}
    \cup {[isstr |-> FALSE, text |-> <<"1">>]}

GetNodeByIndex ==
    /\ pc = "done"
    /\ \E index \in IndexInputs :
          ret' = [op |-> "node", index |-> index, result |-> get_node_by_index(index_structure, index)]
    /\ hist' = [hist EXCEPT !.actor = "main"]
    /\ UNCHANGED <<env, pc, engine, tasks>>

\* a project with so many source files that _parse_java_files parses in
\* parallel: the files Fs and ParallelThreshold files without a type declaration
InitParallel ==
    \E Fs \in SUBSET (DOMAIN Candidates) :
        /\ 1 <= Cardinality(Fs)
        /\ Cardinality(Fs) <= MaxFiles
        /\ InitWith(ProjectFs(Fs, ParallelThreshold), [path \in Fs |-> Candidates[path]])

\* _parse_java_files_parallel: executor.submit for every file
SubmitParseTasks ==
    /\ pc = "parse"
    /\ use_parallel
    /\ tasks' = [i \in 1..Len(JavaFiles) |->
                    [ops |-> FileOps(content[JavaFiles[i].path], JavaFiles[i].path, JavaFiles[i].index, i),
                     loc |-> Loc0]]
    /\ pc' = "workers"
    /\ hist' = [hist EXCEPT !.actor = "main", !.read = now]
    /\ UNCHANGED <<env, engine, ret>>

\* a worker thread runs _parse_java_file up to its next access to the stores
WorkerStep ==
    /\ pc = "workers"
    /\ \E i \in 1..Len(tasks) :
          /\ Len(tasks[i].ops) > 0
          /\ LET r == ExecOp(St, tasks[i].loc, tasks[i].ops[1])
             IN  /\ SetStores(r.st)
                 /\ tasks' = [tasks EXCEPT ![i] = [ops |-> Tail(tasks[i].ops), loc |-> r.loc]]
    /\ hist' = [hist EXCEPT !.actor = "worker"]
    /\ UNCHANGED <<env, pc, ret>>

CollectWithoutWaiting ==
    /\ pc = "workers"
    /\ tasks' = <<>>
    /\ pc' = "rel"
    /\ hist' = [hist EXCEPT !.actor = "main"]
    /\ UNCHANGED <<env, engine, ret>>

\* the as_completed loop has seen every future; no future raised
CollectParseResults ==
    /\ pc = "workers"
    /\ \A i \in 1..Len(tasks) : Len(tasks[i].ops) = 0
    /\ tasks' = <<>>
    /\ pc' = "rel"
    /\ hist' = [hist EXCEPT !.actor = "main"]
    /\ UNCHANGED <<env, engine, ret>>


\* what the path given to the program can be when the explorer is constructed
RootKinds == {"directory", "fresh directory", "file", "missing"}

\* the file system before the explorer is constructed on the root
RootFs(kind, Fs) ==
    CASE kind = "directory" -> ProjectFs(Fs, 0)
      [] kind = "fresh directory" -> [ProjectFs(Fs, 0) EXCEPT !.dirs = @ \ {cache_dir}]
      [] kind = "file" -> [dirs |-> {}, files |-> {project_path}, bulk |-> 0]
      [] kind = "missing" -> [dirs |-> {}, files |-> {}, bulk |-> 0]

InitFlow ==
    \E kind \in RootKinds, Fs \in SUBSET (DOMAIN FlowCandidates) :
        /\ Cardinality(Fs) <= MaxFiles
        /\ kind \in {"file", "missing"} => Fs = {}
        /\ InitAt(RootFs(kind, Fs), [path \in Fs |-> FlowCandidates[path]], "new")

ConstructMakedirsFirst(f) ==
    IF project_path \notin f.dirs
    THEN [raised |-> "FileNotFoundError", fs |-> [f EXCEPT !.dirs = @ \cup {cache_dir}], io |-> <<"exists", "makedirs", "isdir">>]
    ELSE [raised |-> "", fs |-> [f EXCEPT !.dirs = @ \cup {cache_dir}], io |-> <<"exists", "makedirs", "isdir">>]

\* SpringBootExplorer.__init__ on file system f: the exception it raises ("" for
\* none), the file system it leaves and the file system calls it made
__init__(f) ==
    IF project_path \notin f.dirs
    THEN [raised |-> "FileNotFoundError", fs |-> f, io |-> <<"isdir">>]
    ELSE IF cache_dir \in f.dirs \cup f.files
         THEN [raised |-> "", fs |-> f, io |-> <<"isdir", "exists">>]
         ELSE [raised |-> "", fs |-> [f EXCEPT !.dirs = @ \cup {cache_dir}], io |-> <<"isdir", "exists", "makedirs">>]

\* InteractiveSpringExplorer.__init__ constructs the explorer; main returns 1 when it raises
ConstructExplorer ==
    /\ pc = "new"
    /\ LET r == __init__(fs)
       IN  /\ fs' = r.fs
           /\ pc' = IF r.raised # "" THEN "failed" ELSE "ready"
           /\ ret' = [op |-> "init", raised |-> r.raised, io |-> r.io]
    /\ SetStores(FreshStores)
    /\ hist' = [hist EXCEPT !.actor = "main"]
    /\ UNCHANGED <<content, mtime, now, cache_file, tasks>>

\* a query is made on an explorer whose analysis has returned
QueryStep(r) ==
    /\ pc = "done"
    /\ hist.queries < MaxQueries
    /\ ret' = r
    /\ hist' = [hist EXCEPT !.queries = @ + 1, !.actor = "main"]
    /\ UNCHANGED <<env, pc, tasks>>

\* the keys analyze_method_flow is called with: stored keys, their lower-case
\* forms, keys without their parameter list, and keys of no method
FlowInputs ==
    DOMAIN methods \cup {LowerSeq(k) : k \in DOMAIN methods} \cup {BeforeFirst(k, "(") : k \in DOMAIN methods}
    \cup { <<>>, <<"zzz">>, <<"u", ".", "run", "(", ")">> }

AnalyzeMethodFlow ==
    \E method_key \in FlowInputs :
        LET r == analyze_method_flow(St, fs, method_key)
        IN  /\ QueryStep([op |-> "flow", key |-> method_key, result |-> r.result])
            /\ SetStores(r.st)

SearchMethod ==
    \E name_part \in { <<>>, <<"run">>, <<"RUN">>, <<"zzz">> } :
        /\ QueryStep([op |-> "search_method", name_part |-> name_part, result |-> search_method(St, name_part)])
        /\ UNCHANGED engine

SearchString ==
    \E term \in {"run", "Run", "zzz"} :
        /\ QueryStep([op |-> "search_string", term |-> term, result |-> search_string(string_index, term)])
        /\ UNCHANGED engine

GetSpringComponents ==
    \E component_type_filter \in {"", "service", "Controller"} :
        LET r == get_spring_components(St, component_type_filter)
        IN  /\ QueryStep([op |-> "spring", filter |-> component_type_filter, result |-> r.result])
            /\ SetStores(r.st)

GetParseErrors ==
    /\ QueryStep([op |-> "errors", result |-> get_parse_errors(St)])
    /\ UNCHANGED engine

DebugAnnotations ==
    /\ QueryStep([op |-> "annotations", result |-> debug_annotations(St)])
    /\ UNCHANGED engine

\* get_node_by_index as one of the counted queries
NodeQuery ==
    /\ pc = "done"
    /\ \E index \in IndexInputs :
          /\ QueryStep([op |-> "node", index |-> index, result |-> get_node_by_index(index_structure, index)])
          /\ UNCHANGED engine

Next ==
    \/ LoadFromCache
    \/ BuildProjectStructure
    \/ ParseJavaFilesSequential
    \/ BuildComponentRelationships
    \/ BuildCallGraph
    \/ BuildStringIndex
    \/ SaveToCache
    \/ NewExplorer
    \/ Touch
    \/ DamageCache

\* analyses and cache files over several runs of the program
Spec == Init /\ [][Next]_vars

NextStale ==
    \/ LoadFromCache
    \/ BuildProjectStructure
    \/ ParseJavaFilesSequential
    \/ BuildComponentRelationships
    \/ BuildCallGraph
    \/ BuildStringIndex
    \/ SaveToCache
    \/ NewExplorer
    \/ Touch
    \/ TouchDuringAnalysis

\* several runs of the program on a root whose files are modified at any time
SpecStale == Init /\ [][NextStale]_vars

NextQuery ==
    \/ LoadFromCache
    \/ BuildProjectStructure
    \/ ParseJavaFilesSequential
    \/ BuildComponentRelationships
    \/ BuildCallGraph
    \/ BuildStringIndex
    \/ SaveToCache
    \/ ResolveTypeName
    \/ GetNodeByIndex

\* one analysis followed by calls of the explorer's operations
SpecQuery == Init /\ [][NextQuery]_vars

\* a project of the files whose names the resolver is asked for
InitResolve ==
    \E Fs \in SUBSET (DOMAIN ResolveCandidates) :
        /\ 1 <= Cardinality(Fs)
        /\ Cardinality(Fs) <= MaxFiles
        /\ InitWith(ProjectFs(Fs, 0), [path \in Fs |-> ResolveCandidates[path]])

NextResolve ==
    \/ LoadFromCache
    \/ BuildProjectStructure
    \/ ParseJavaFilesSequential
    \/ BuildComponentRelationships
    \/ BuildCallGraph
    \/ BuildStringIndex
    \/ SaveToCache
    \/ ResolveTypeName

\* one analysis followed by calls of _resolve_type_name
SpecResolve == InitResolve /\ [][NextResolve]_vars

\* a project of the files whose type hierarchy is searched
InitHierarchy ==
    \E Fs \in SUBSET (DOMAIN HierarchyCandidates) :
        /\ 1 <= Cardinality(Fs)
        /\ Cardinality(Fs) <= MaxFiles
        /\ InitWith(ProjectFs(Fs, 0), [path \in Fs |-> HierarchyCandidates[path]])

\* _find_method_in_hierarchy for an invocation of a member with a number of
\* arguments, started at a type of the store or at a name the store does not hold
FindMethodInHierarchy ==
    /\ pc = "done"
    /\ \E start_fqn \in DOMAIN components \cup { <<"Zed">> }, method_name \in {"m", "g"}, arg_count \in {0, 1} :
          ret' = [op |-> "find", start |-> start_fqn, member |-> method_name, nargs |-> arg_count,
                  result |-> _find_method_in_hierarchy(St, start_fqn, method_name, arg_count),
                  examined |-> HierarchyLoop(St, <<start_fqn>>, <<>>, {}, method_name, arg_count).examined]
    /\ hist' = [hist EXCEPT !.actor = "main"]
    /\ UNCHANGED <<env, pc, engine, tasks>>

NextHierarchy ==
    \/ LoadFromCache
    \/ BuildProjectStructure
    \/ ParseJavaFilesSequential
    \/ BuildComponentRelationships
    \/ BuildCallGraph
    \/ BuildStringIndex
    \/ SaveToCache
    \/ FindMethodInHierarchy

\* one analysis followed by searches of the type hierarchy
SpecHierarchy == InitHierarchy /\ [][NextHierarchy]_vars

NextParallel ==
    \/ LoadFromCache
    \/ BuildProjectStructure
    \/ SubmitParseTasks
    \/ WorkerStep
    \/ CollectParseResults
    \/ BuildComponentRelationships
    \/ BuildCallGraph
    \/ BuildStringIndex
    \/ SaveToCache

\* one analysis of a project above the parallel threshold
SpecParallel == InitParallel /\ [][NextParallel]_vars

\* the places of the source files of a parsed batch, in the order of the file list
ParsePaths == { << N_A >>, << N_C >>, << <<"src">>, N_A >> }

\* the files of a parsed batch: a class U in the packages p and q and in the
\* default package, a file with a syntax error and a file that cannot be read
ParseFiles == {File_Dispatch, File_Cycle, File_Bare, File_Syntax, File_Unreadable}

\* a project whose source files are different files of ParseFiles in any
\* order, below the parallel threshold or above it
InitParse ==
    \E Fs \in SUBSET ParsePaths, bulk \in {0, ParallelThreshold} :
        /\ 1 <= Cardinality(Fs)
        /\ Cardinality(Fs) <= MaxFiles
        /\ \E c \in [Fs -> ParseFiles] :
              /\ \A x, y \in Fs : c[x] = c[y] => x = y
              /\ InitWith(ProjectFs(Fs, bulk), c)

NextParse ==
    \/ LoadFromCache
    \/ BuildProjectStructure
    \/ ParseJavaFilesSequential
    \/ SubmitParseTasks
    \/ WorkerStep
    \/ CollectParseResults
    \/ BuildComponentRelationships
    \/ BuildCallGraph
    \/ BuildStringIndex
    \/ SaveToCache

\* one analysis of a project, with the sequential or the parallel parser
SpecParse == InitParse /\ [][NextParse]_vars

NextFlow ==
    \/ ConstructExplorer
    \/ LoadFromCache
    \/ BuildProjectStructure
    \/ ParseJavaFilesSequential
    \/ BuildComponentRelationships
    \/ BuildCallGraph
    \/ BuildStringIndex
    \/ SaveToCache
    \/ NewExplorer
    \/ AnalyzeMethodFlow
    \/ SearchMethod
    \/ SearchString
    \/ GetSpringComponents
    \/ GetParseErrors
    \/ DebugAnnotations
    \/ NodeQuery

\* runs of the program from the construction of the explorer, with queries
SpecFlow == InitFlow /\ [][NextFlow]_vars


\* ------------------------------------------------------------------ properties
\* analyze_project has returned
Returned == pc = "done"

\* C1: in every state reached after analyze_project returns, by a full build or
\* by a cache load, every key of the method store is a node of the call graph
\* and both endpoints of every edge are keys of the method store.
C1_GraphCoversMethodStore ==
    Returned =>
        /\ DOMAIN methods \subseteq call_graph.nodes
        /\ \A e \in call_graph.edges : e[1] \in DOMAIN methods /\ e[2] \in DOMAIN methods

\* a cache load that dropped a method record which has edges in the cached edge list
C1_Witness ==
    /\ Returned
    /\ hist.origin = "cache"
    /\ call_graph.edges # {}
    /\ \E e \in cache_file.call_graph_edges : e[1] \notin DOMAIN methods
    /\ DOMAIN methods # {}

\* the cache file was written by a full analysis of this root and neither it
\* nor any source file was changed since
CleanCache == cache_file # NoFile /\ ~hist.touched /\ hist.fault = "none"

\* C2: round trip.  When _load_from_cache runs on a new explorer over a cache
\* saved by a full analysis, with no source file touched, the load is accepted
\* and the loaded components (kind, package, imports, annotations, extends,
\* implements, fields, method maps), method keys, graph nodes and graph edges
\* equal those of the fresh build.
C2_RoundTrip ==
    [][(pc = "ready" /\ CleanCache /\ pc' # "ready") => (pc' = "done" /\ View(St)' = hist.fresh)]_vars

\* the files with a tracked extension that the tree indexer indexes under the root
TrackedFiles ==
    {n.path : n \in {x \in TreeNodes(_build_project_structure(fs)) :
                         x.type # "directory" /\ \E e \in relevant_extensions : EndsWith(x.name, e)}}

\* C3: if the modification time of a tracked source file was set to a value
\* later than the cache's build timestamp, the next _load_from_cache rejects
\* the cache and analyze_project goes on to a full re-analysis.
C3_TouchInvalidates ==
    [][(/\ pc = "ready"
        /\ cache_file # NoFile
        /\ hist.fault = "none"
        /\ \E path \in TrackedFiles : mtime[path] > cache_file.timestamp
        /\ pc' # "ready") => pc' = "structure"]_vars

\* C4: a deserialization fault in the cache file makes _load_from_cache return
\* False and delete the cache file, and analyze_project goes on to a full
\* re-analysis; a cache with a fault is never accepted.
C4_FaultDeletesCache ==
    [][(/\ pc = "ready"
        /\ hist.fault # "none"
        /\ ~hist.touched
        /\ pc' # "ready") => (pc' = "structure" /\ cache_file' = NoFile)]_vars

\* C7: type-name resolution is idempotent, and a name that already is the
\* fully qualified name of a component in the store is returned unchanged.
C7_ResolveIdempotent ==
    ret.op = "resolve" =>
        /\ ret.again = ret.result
        /\ ret.name \in DOMAIN components => ret.result = ret.name

\* _build_component_relationships has run in this analysis
RelationshipsBuilt == pc \in {"graph", "strings", "save"} \/ (pc = "done" /\ hist.origin = "build")

\* a name without a package qualifier that is not itself a name of the store
Unqualified(type_name) ==
    ~HasTok(BeforeFirst(type_name, "<"), ".") /\ BeforeFirst(type_name, "<") \notin DOMAIN components

SimpleNames == {cheap[components[k]].name : k \in DOMAIN components}

\* C8: after _build_component_relationships, no extends or implements list of
\* a component holds an unqualified name equal to the simple name of a
\* component in the store.
C8_NoUnqualifiedSupertype ==
    RelationshipsBuilt =>
        \A k \in DOMAIN components :
            LET c == cheap[components[k]]
            IN  \A e \in SeqToSet(c.extends) \cup SeqToSet(c.implements) :
                    ~(Unqualified(e) /\ BeforeFirst(e, "<") \in SimpleNames)

\* _build_call_graph has run in this analysis
GraphBuilt == pc \in {"strings", "save"} \/ (pc = "done" /\ hist.origin = "build")

\* the keys of the method store for a member of the type fqn with k parameters
KeysDeclaring(fqn, member, k) ==
    {key \in DOMAIN methods :
        /\ StartsWith(key, fqn \o <<".", member, "(">>)
        /\ mheap[methods[key]].name = member
        /\ Len(mheap[methods[key]].parameters) = k}

\* the invocations of the stored method key whose qualifier is a field of its component
FieldCalls(key) ==
    LET mo == mheap[methods[key]]
    IN  {inv \in SeqToSet(mo.method_invocations) :
            /\ Len(inv.qualifier) = 1
            /\ inv.qualifier[1] \notin {"this", "super"}
            /\ inv.qualifier[1] \in DOMAIN cheap[mo.parent_component].fields}

\* the resolved declared type of the field an invocation of key goes through
FieldType(key, inv) ==
    LET c == cheap[mheap[methods[key]].parent_component]
    IN  _resolve_type_name(St, BeforeFirst(c.fields[inv.qualifier[1]].field_type, "<"), c)

Interfaces == {k \in DOMAIN components : cheap[components[k]].component_type = "Interface"}

\* C9 as stated: a call of m through a field of declared type I has an edge
\* to the method m of every component C that implements I.
C9_DispatchToImplementer ==
    GraphBuilt =>
        \A key \in DOMAIN methods : \A inv \in FieldCalls(key) :
            FieldType(key, inv) \in Interfaces =>
                \A c \in DOMAIN components :
                    FieldType(key, inv) \in SeqToSet(cheap[components[c]].implements) =>
                        \A target \in KeysDeclaring(c, inv.member, inv.nargs) :
                            <<key, target>> \in call_graph.edges

\* C9, amended: a call of m with k arguments through a field whose declared
\* type resolves to the interface I of the store has an edge from the calling
\* method's key to the key of every m with k parameters that I itself declares.
C9_DispatchToDeclaredType ==
    GraphBuilt =>
        \A key \in DOMAIN methods : \A inv \in FieldCalls(key) :
            FieldType(key, inv) \in Interfaces =>
                \A target \in KeysDeclaring(FieldType(key, inv), inv.member, inv.nargs) :
                    <<key, target>> \in call_graph.edges

\* a built graph in which a method calls, through a field of interface type,
\* a method that the interface declares and a component implements
C9_Witness ==
    /\ GraphBuilt
    /\ \E key \in DOMAIN methods : \E inv \in FieldCalls(key) :
          /\ FieldType(key, inv) \in Interfaces
          /\ KeysDeclaring(FieldType(key, inv), inv.member, inv.nargs) # {}
          /\ \E c \in DOMAIN components :
                /\ FieldType(key, inv) \in SeqToSet(cheap[components[c]].implements)
                /\ KeysDeclaring(c, inv.member, inv.nargs) # {}

\* the invocations of the stored method key on its own object
SelfCalls(key) ==
    {inv \in SeqToSet(mheap[methods[key]].method_invocations) : inv.qualifier \in {<<>>, <<"this">>}}

\* the component by object identity cid declares a member with k parameters
DeclaresMember(cid, member, k) ==
    \E d \in DOMAIN cheap[cid].methods :
        /\ mheap[cheap[cid].methods[d]].name = member
        /\ Len(mheap[cheap[cid].methods[d]].parameters) = k

\* C10: self call.  If a method u of component F invokes, without qualifier
\* or on this, a member that F declares with a matching parameter count
\* (method v), the built graph has the edge u -> v, v is in the calls list of
\* u and u is in the called_by list of v.
C10_SelfCall ==
    GraphBuilt =>
        \A u \in DOMAIN methods : \A inv \in SelfCalls(u) :
            LET F == mheap[methods[u]].parent_component
                vs == KeysDeclaring(cheap[F].fully_qualified_name, inv.member, inv.nargs)
            IN  DeclaresMember(F, inv.member, inv.nargs) =>
                    /\ vs # {}
                    /\ \A v \in vs :
                          /\ <<u, v>> \in call_graph.edges
                          /\ methods[v] \in SeqToSet(mheap[methods[u]].calls)
                          /\ methods[u] \in SeqToSet(mheap[methods[v]].called_by)

\* a built graph with a this-qualified and an unqualified self call
C10_Witness ==
    /\ GraphBuilt
    /\ \E u \in DOMAIN methods :
          /\ \E inv \in SelfCalls(u) :
                inv.qualifier = <<"this">> /\ DeclaresMember(mheap[methods[u]].parent_component, inv.member, inv.nargs)
          /\ \E inv \in SelfCalls(u) :
                inv.qualifier = <<>> /\ DeclaresMember(mheap[methods[u]].parent_component, inv.member, inv.nargs)
          /\ mheap[methods[u]].calls # <<>>

\* C5: during parallel parsing no worker task writes to the component store,
\* the method store, the package index or the parse-error list; every write
\* to them is made by the coordinating thread.
C5_WorkersWriteNoSharedStore ==
    [][hist'.actor = "worker" => UNCHANGED <<components, methods, package_structure, parse_errors>>]_vars

\* C6: get_node_by_index on the index of a node of the built tree returns
\* that node (the root has index "0", a child the index of its parent
\* followed by "." and its position among the children).
C6_IndexFindsNode ==
    ret.op = "node" =>
        \A n \in TreeNodes(index_structure) : n.index = ret.index.text => ret.result = n

\* the stored keys that equal the key k when case is ignored
CaseEqual(k) == {key \in DOMAIN methods : LowerSeq(key) = LowerSeq(k)}

\* C11: analyze_method_flow(k) returns the flow of k when k is a key of the
\* method store; otherwise the flow of the one stored key that equals k when
\* case is ignored; the multiple-matches signal only when more than one stored
\* key equals k when case is ignored; and the not-found result when none does.
C11_FlowLookup ==
    ret.op = "flow" =>
        /\ ret.key \in DOMAIN methods => (ret.result.kind = "flow" /\ ret.result.method_key = ret.key)
        /\ (ret.key \notin DOMAIN methods /\ Cardinality(CaseEqual(ret.key)) = 1) =>
               (ret.result.kind = "flow" /\ ret.result.method_key \in CaseEqual(ret.key))
        /\ ret.result.kind = "multiple_matches" => Cardinality(CaseEqual(ret.key)) > 1
        /\ (ret.key \notin DOMAIN methods /\ CaseEqual(ret.key) = {}) => ret.result.kind = "none"

\* the number of levels of a call tree
RECURSIVE Levels(_)
Levels(entries) ==
    IF entries = {} THEN 0 ELSE 1 + MaxOf({Levels(e.kids) : e \in entries})

\* C12: the outgoing-call tree of a flow holds no entry more than 3 call
\* levels below the queried method, the incoming-caller tree no entry more
\* than 1 caller level above it.
C12_TreeDepth ==
    (ret.op = "flow" /\ ret.result.kind = "flow") =>
        /\ Levels(ret.result.calls) <= 3
        /\ Levels(ret.result.called_by) <= 1

\* no entry of the tree has a key of the set seen, nor a key of an entry above it
RECURSIVE NoRepeat(_, _)
NoRepeat(entries, seen) ==
    \A e \in entries : e.method_key \notin seen /\ NoRepeat(e.kids, seen \cup {e.method_key})

\* C13: along every branch of the outgoing-call tree and of the
\* incoming-caller tree of a flow, the queried method counted as the root of
\* the branch, no method key occurs twice.
C13_NoRepeatOnBranch ==
    (ret.op = "flow" /\ ret.result.kind = "flow") =>
        /\ NoRepeat(ret.result.calls, {ret.result.method_key})
        /\ NoRepeat(ret.result.called_by, {ret.result.method_key})

QueryOps == {"flow", "search_method", "search_string", "spring", "errors", "annotations", "node"}

\* C17: a call of a query operation leaves the component store with every
\* component's attributes, the method store with every method's attributes,
\* the call graph, the string index and the file tree unchanged.
C17_QueriesReadOnly ==
    [][(pc = "done" /\ pc' = "done" /\ ret'.op \in QueryOps /\ hist'.queries # hist.queries) =>
          UNCHANGED <<components, cheap, methods, mheap, call_graph, string_index, index_structure>>]_vars

\* the path given to the program is not an existing directory
RootInvalid == project_path \notin fs.dirs

\* C16: constructing the explorer on a path that is not an existing directory
\* raises the path-not-found error after the directory test alone: no
\* directory was listed, no file read, the cache directory was not created
\* and no analysis ran.
C16_InvalidRootFailsFirst ==
    (RootInvalid /\ pc # "new") =>
        /\ pc = "failed"
        /\ ret = [op |-> "init", raised |-> "FileNotFoundError", io |-> <<"isdir">>]
        /\ cache_dir \notin fs.dirs \cup fs.files
        /\ St = FreshStores

\* the constructor has raised on a path that is a file and on a path that does not exist
C16_Witness == pc = "failed" /\ ret.op = "init" /\ ret.raised = "FileNotFoundError"

\* every part is an integer that is the position of a child of the node reached so far
RECURSIVE InRange(_, _)
InRange(node, parts) ==
    \/ Len(parts) = 0
    \/ /\ IntOk(parts[1])
       /\ IntOf(parts[1]) \in 1..Len(node.children)
       /\ InRange(node.children[IntOf(parts[1])], Tail(parts))

\* the argument is not a string, is empty, or has a part that is no positive
\* integer or is out of range for the node reached so far
BadIndex(index) == ~index.isstr \/ index.text = <<>> \/ ~InRange(index_structure, Split(index.text, "."))

\* C19 as stated: get_node_by_index raises nothing and returns None for every
\* argument that is not a string, is empty, or has a part that is no positive
\* integer or is out of range.
C19_BadIndexIsNone ==
    ret.op = "node" =>
        /\ "raised" \notin DOMAIN ret.result
        /\ BadIndex(ret.index) => ret.result = NoneNode

\* C19, amended: get_node_by_index raises nothing; it returns the root for the
\* argument "0" and None for every other argument that is not a string, is
\* empty, or has a part that is no positive integer or is out of range.
C19_BadIndexIsNoneButRoot ==
    ret.op = "node" =>
        /\ "raised" \notin DOMAIN ret.result
        /\ (ret.index.isstr /\ ret.index.text = <<"0">>) => ret.result = index_structure
        /\ (BadIndex(ret.index) /\ ~(ret.index.isstr /\ ret.index.text = <<"0">>)) => ret.result = NoneNode

\* get_node_by_index has returned None for an argument with a part that is not a number
C19_Witness ==
    /\ ret.op = "node"
    /\ ret.index.isstr
    /\ \E i \in 1..Len(Split(ret.index.text, ".")) : ~IntOk(Split(ret.index.text, ".")[i])
    /\ ret.result = NoneNode

\* _parse_java_files has returned in this analysis
Parsed == pc = "rel" \/ RelationshipsBuilt

\* every type declared directly inside node, whose component has the FQN fqn,
\* is stored as fqn$name with the package pkg and is in no list of the package index
RECURSIVE NestedStored(_, _, _)
NestedStored(fqn, pkg, node) ==
    \A k \in 1..Len(node.inner) :
        LET nested == fqn \o <<"$">> \o node.inner[k].name
        IN  /\ nested \in DOMAIN components
            /\ cheap[components[nested]].package = pkg
            /\ \A p \in DOMAIN package_structure : nested \notin SeqToSet(package_structure[p])
            /\ NestedStored(nested, pkg, node.inner[k])

\* C18: after parsing, every type declared directly inside a type stored with
\* FQN F is stored with FQN F$N at every nesting depth, its package is the
\* package of the outermost enclosing type, and no list of the package index
\* holds it.
C18_NestedTypes ==
    Parsed =>
        \A i \in 1..Len(JavaFiles) :
            LET file == content[JavaFiles[i].path]
            IN  \A k \in 1..Len(file.types) :
                    LET outer == TypeFqn(file.package, file.types[k].name)
                    IN  outer \in DOMAIN components => NestedStored(outer, file.package, file.types[k])

\* the type declaration node of the file at path, and the types declared
\* inside it, each have a component of that file with a method of every
\* declared method
RECURSIVE DeclStored(_, _)
DeclStored(path, node) ==
    /\ \E fqn \in DOMAIN components :
          /\ cheap[components[fqn]].file_path = path
          /\ cheap[components[fqn]].name = node.name
          /\ \A j \in 1..Len(node.methods) :
                \E key \in DOMAIN methods :
                    /\ StartsWith(key, fqn)
                    /\ mheap[methods[key]].parent_component = components[fqn]
                    /\ mheap[methods[key]].name = node.methods[j].name
                    /\ Len(mheap[methods[key]].parameters) = Len(node.methods[j].params)
    /\ \A k \in 1..Len(node.inner) : DeclStored(path, node.inner[k])

Failing(path) == content[path].status # "ok"

\* the file at path was dealt with: its declarations are stored, or its failure is recorded
FileDone(path) ==
    IF Failing(path) THEN \E i \in 1..Len(parse_errors) : parse_errors[i][1] = path
    ELSE \A k \in 1..Len(content[path].types) : DeclStored(path, content[path].types[k])

\* C14: when _parse_java_files has returned, in sequential and in parallel
\* mode and whichever files of the list fail to read or to parse, the
\* components and methods of every file that did not fail are in the stores
\* and every failing file has an entry in the parse-error list; each file
\* failed inside its own _parse_java_file call and the batch went on.
C14_BatchNeverAborted ==
    Parsed => \A i \in 1..Len(JavaFiles) : FileDone(JavaFiles[i].path)

\* the sequential parser went past a failing file to a later file of the list
C14_Witness ==
    /\ pc = "rel"
    /\ ~use_parallel
    /\ \E i, j \in 1..Len(JavaFiles) :
          /\ i < j
          /\ Failing(JavaFiles[i].path)
          /\ ~Failing(JavaFiles[j].path)
          /\ content[JavaFiles[j].path].types # <<>>
          /\ FileDone(JavaFiles[i].path) /\ FileDone(JavaFiles[j].path)

\* the keys of the methods of the component stored under fqn
MethodKeysOf(fqn) == {key \in DOMAIN methods : mheap[methods[key]].parent_component = components[fqn]}

\* the top-level classes of the parsed files, each with its file's path and package
TopLevel ==
    UNION {{[path |-> JavaFiles[i].path, package |-> content[JavaFiles[i].path].package, node |-> t] :
                t \in SeqToSet(content[JavaFiles[i].path].types)} : i \in 1..Len(JavaFiles)}

\* the name of a top-level type within its package
Qualified(package, name) == IF package = <<>> THEN name ELSE package \o <<".">> \o name

\* C15: two files that each declare a class of the same simple name in
\* different packages give two components under two different FQNs, each the
\* class of its own file, and no method key belongs to both, in whatever order
\* the files are processed.
C15_SameNameTwoPackages ==
    Parsed =>
        \A a, b \in TopLevel :
            (a.path # b.path /\ a.node.name = b.node.name /\ a.package # b.package) =>
                LET fa == Qualified(a.package, a.node.name)
                    fb == Qualified(b.package, b.node.name)
                IN  /\ fa # fb
                    /\ fa \in DOMAIN components /\ fb \in DOMAIN components
                    /\ components[fa] # components[fb]
                    /\ cheap[components[fa]].file_path = a.path
                    /\ cheap[components[fb]].file_path = b.path
                    /\ cheap[components[fa]].package = a.package
                    /\ cheap[components[fb]].package = b.package
                    /\ MethodKeysOf(fa) \cap MethodKeysOf(fb) = {}
                    /\ \A j \in 1..Len(a.node.methods) :
                          \E key \in MethodKeysOf(fa) : mheap[methods[key]].name = a.node.methods[j].name
                    /\ \A key \in MethodKeysOf(fa) : StartsWith(key, fa \o <<".">>)

\* the parallel parser has stored the class U of package q and the class U of
\* package p, both declaring run()
C15_Witness ==
    /\ pc = "rel"
    /\ use_parallel
    /\ \E a, b \in TopLevel :
          /\ a.path # b.path /\ a.node.name = b.node.name
          /\ a.package = Pkg_p /\ b.package = Pkg_q
          /\ \E ka \in MethodKeysOf(Qualified(a.package, a.node.name)),
                kb \in MethodKeysOf(Qualified(b.package, b.node.name)) :
                mheap[methods[ka]].name = mheap[methods[kb]].name

\* C20: in sequential and in parallel mode, _build_component_relationships
\* begins only when every parse task has completed and every file of the list
\* was dealt with, _build_call_graph begins only when
\* _build_component_relationships has finished, both are steps of the
\* coordinating thread, and a worker thread only ever runs while the parser waits.
C20_PassesAfterParsing ==
    [][ /\ (pc = "rel" /\ pc' # "rel") =>
              /\ \A i \in 1..Len(tasks) : tasks[i].ops = <<>>
              /\ \A i \in 1..Len(JavaFiles) : FileDone(JavaFiles[i].path)
              /\ pc' = "graph" /\ hist'.actor = "main"
        /\ (pc' = "graph" /\ pc # "graph") => pc = "rel"
        /\ (pc' = "strings" /\ pc # "strings") => (pc = "graph" /\ hist'.actor = "main")
        /\ call_graph' # call_graph => (pc = "graph" /\ hist'.actor = "main")
        /\ hist'.actor = "worker" => (pc = "workers" /\ pc' = "workers")
      ]_vars

\* the call graph was built after a parallel parse of several files
C20_Witness == pc = "strings" /\ use_parallel /\ Len(JavaFiles) > 1 /\ call_graph.nodes # {}

\* the FQN of a component and of the types that enclose it, the nearest first
Scopes(fqn) == {fqn} \cup {SubSeq(fqn, 1, i - 1) : i \in {j \in 1..Len(fqn) : fqn[j] = "$"}}

\* the first import declaration of a file that is in the set hits, 0 if none
FirstDecl(decls, hits) ==
    IF hits = {} THEN 0 ELSE CHOOSE i \in hits : \A j \in hits : i <= j

\* what the ordered strategies give for type_name in the context of the component stored under key
OrderedResolution(type_name, key) ==
    LET c == cheap[components[key]]
        decls == content[c.file_path].imports
        base_name == BeforeFirst(type_name, "<")
        generic_part == SubSeq(type_name, Len(base_name) + 1, Len(type_name))
        inner == {s \in Scopes(c.fully_qualified_name) : (s \o <<"$">> \o base_name) \in DOMAIN components}
        nearest == CHOOSE s \in inner : \A t \in inner : Len(t) <= Len(s)
        single == FirstDecl(decls, {i \in 1..Len(decls) :
                                       ~decls[i].wildcard /\ EndsWith(decls[i].path, <<".">> \o base_name)})
        same == c.package \o <<".">> \o base_name
        wild == FirstDecl(decls, {i \in 1..Len(decls) :
                                     decls[i].wildcard /\ (decls[i].path \o <<".">> \o base_name) \in DOMAIN components})
    IN  IF HasTok(base_name, ".") THEN type_name
        ELSE IF inner # {} THEN nearest \o <<"$">> \o base_name \o generic_part
        ELSE IF single # 0 THEN decls[single].path \o generic_part
        ELSE IF c.package # <<>> /\ same \in DOMAIN components THEN same \o generic_part
        ELSE IF wild # 0 THEN decls[wild].path \o <<".">> \o base_name \o generic_part
        ELSE IF Len(base_name) = 1 /\ base_name[1] \in java_lang_types
             THEN <<"java", ".", "lang", ".">> \o base_name \o generic_part
        ELSE IF Len(base_name) = 1 /\ base_name[1] \in java_util_types
             THEN <<"java", ".", "util", ".">> \o base_name \o generic_part
        ELSE type_name

\* C21: _resolve_type_name returns what the first matching strategy gives, in
\* the order: dotted name verbatim; inner type of the current or of an
\* enclosing component, nearest first; single-type import ending in the name;
\* component of the same package; package of a wildcard import holding a
\* component of that name; the java.lang table, then the java.util table;
\* otherwise the name unchanged.
C21_FirstStrategyWins ==
    ret.op = "resolve" => ret.result = OrderedResolution(ret.name, ret.context)

\* the names in the extends and implements lists of the types of a set
Supertypes(types) ==
    UNION {SeqToSet(cheap[components[t]].extends \o cheap[components[t]].implements) : t \in types \cap DOMAIN components}

\* the types of the store named, without type arguments, in the lists of the types of a set
SuperComponents(types) == {BeforeFirst(n, "<") : n \in Supertypes(types)} \cap DOMAIN components

\* the start type and every type of the store reachable from it through extends and implements
RECURSIVE ReachableFrom(_)
ReachableFrom(types) ==
    IF SuperComponents(types) \subseteq types THEN types ELSE ReachableFrom(types \cup SuperComponents(types))

\* C22: _find_method_in_hierarchy returns for every extends/implements
\* relation of the store, cyclic and self-inheritance included, and no FQN
\* occurs twice among the types it examined.
C22_EachTypeOnce ==
    ret.op = "find" =>
        /\ \A i, j \in 1..Len(ret.examined) : ret.examined[i] = ret.examined[j] => i = j
        /\ ret.examined[1] = ret.start
        /\ \A i \in 2..Len(ret.examined) :
              ret.examined[i] \in Supertypes(SeqToSet(ret.examined)) \cup {ObjectFqn}

\* the search has returned from a type on an inheritance cycle and from a type
\* that reaches a third type along two paths
C22_Witness ==
    /\ ret.op = "find"
    /\ Len(ret.examined) >= 2
    /\ \/ ret.start \in Supertypes(Supertypes({ret.start}))
       \/ \E a, b \in Supertypes({ret.start}) :
             a # b /\ Supertypes({a}) \cap Supertypes({b}) \cap SeqToSet(ret.examined) # {}

\* C23: _find_method_in_hierarchy returns exactly the keys of the methods of
\* the invoked name and argument count declared by the start type or by a type
\* reachable from it through extends and implements, at every level.
C23_AllInheritedCandidates ==
    ret.op = "find" =>
        ret.result = {key \in DOMAIN methods :
                         /\ \E t \in ReachableFrom({ret.start}) \cap DOMAIN components :
                               mheap[methods[key]].parent_component = components[t]
                         /\ mheap[methods[key]].name = ret.member
                         /\ Len(mheap[methods[key]].parameters) = ret.nargs}

\* the stored method objects that the list of method objects holds
KeysIn(list) == {k \in DOMAIN methods : methods[k] \in SeqToSet(list)}

NoDuplicates(list) == \A i, j \in 1..Len(list) : list[i] = list[j] => i = j

\* C24: after analyze_project has returned, by a full build or by a cache
\* load, and for all method keys u and v: the graph has the edge u -> v iff
\* the method v is in the calls list of the method u iff the method u is in the
\* called_by list of the method v; the two lists hold stored methods only and
\* hold none of them twice.
C24_GraphMatchesLists ==
    Returned =>
        \A u \in DOMAIN methods :
            LET method_obj == mheap[methods[u]]
            IN  /\ KeysIn(method_obj.calls) = {v \in DOMAIN methods : <<u, v>> \in call_graph.edges}
                /\ KeysIn(method_obj.called_by) = {v \in DOMAIN methods : <<v, u>> \in call_graph.edges}
                /\ SeqToSet(method_obj.calls) \cup SeqToSet(method_obj.called_by) \subseteq {methods[k] : k \in DOMAIN methods}
                /\ NoDuplicates(method_obj.calls)
                /\ NoDuplicates(method_obj.called_by)

\* a cache load that rebuilt the lists of a graph with edges
C24_Witness ==
    /\ Returned
    /\ hist.origin = "cache"
    /\ call_graph.edges # {}
    /\ \E e \in call_graph.edges : methods[e[1]] \in SeqToSet(mheap[methods[e[2]]].called_by)

\* a full build whose graph has edges
C24_WitnessBuild ==
    /\ Returned
    /\ hist.origin = "build"
    /\ \E e \in call_graph.edges : e[1] # e[2] /\ methods[e[2]] \in SeqToSet(mheap[methods[e[1]]].calls)

\* the string index was built by this run
StringsBuilt == pc = "save" \/ (Returned /\ hist.origin = "build")

\* the tokens of a raw text that the index is to hold
Indexable(text) ==
    {text[i] : i \in {j \in 1..Len(text) : text[j].len >= (IF text[j].type = "identifier" THEN 3 ELSE 2)}}

\* the index holds the token w of the file at path under its lower-case form
Indexed(path, w) ==
    /\ LowerName(w.s) \in DOMAIN string_index
    /\ \E i \in 1..Len(string_index[LowerName(w.s)]) :
          LET e == string_index[LowerName(w.s)][i]
          IN  e.path = path /\ e.original = w.s /\ e.type = w.type

\* C25: once _build_string_index has run, every identifier of three or more
\* characters and every string literal body of two or more characters in the
\* raw text of every readable source file of the project is in the index under
\* its lower-case form, whether or not the file was parsed.
C25_EveryReadableFileIndexed ==
    StringsBuilt =>
        \A i \in 1..Len(JavaFiles) :
            LET path == JavaFiles[i].path
            IN  content[path].status # "unreadable" => \A w \in Indexable(content[path].text) : Indexed(path, w)

\* the same for the files in which a stored component was declared
C25_EveryComponentFileIndexed ==
    StringsBuilt =>
        \A fqn \in DOMAIN components :
            LET path == cheap[components[fqn]].file_path
            IN  (path \in DOMAIN content /\ content[path].status # "unreadable")
                    => \A w \in Indexable(content[path].text) : Indexed(path, w)

\* what a full analysis by a newly constructed explorer computes from the files
FreshAnalysis ==
    LET s0 == [FreshStores EXCEPT !.index_structure = _build_project_structure(fs)]
        s1 == RunOps(s0, Loc0, AllFileOps)
        s2 == _build_component_relationships(s1)
        g == _build_call_graph(s2)
    IN  [s2 EXCEPT !.call_graph = g.graph, !.mheap = g.mheap]

\* the stores as a caller sees them, whatever the identities of the objects
Stores(s) ==
    [view |-> View(s), package_structure |-> s.package_structure, parse_errors |-> s.parse_errors]

\* the last _load_from_cache of this run returned False
LoadFailed == hist.load \in {"nofile", "rejected", "deleted"}

\* C26: whenever _load_from_cache returned False, wherever it failed, the full
\* analysis that follows ends with the component store, method store, package
\* index, call graph and parse-error list that a newly constructed explorer
\* computes from the same files.
C26_FailedLoadLeavesNothing ==
    (pc = "save" /\ LoadFailed) => Stores(St) = Stores(FreshAnalysis)

\* the same for the loads that fail before the stores are assigned
C26_EarlyFailureLeavesNothing ==
    (pc = "save" /\ LoadFailed /\ hist.fault \notin {"components_type", "methods_type", "edges_type", "edge_shape"})
        => Stores(St) = Stores(FreshAnalysis)

\* the stored top-level types that have a package, by package
PackagedTypes == {fqn \in DOMAIN components : HasTok(fqn, ".") /\ ~HasTok(fqn, "$")}

PackagesOf(fqns) == {BeforeLast(fqn, ".") : fqn \in fqns}

\* the package index lists, for every package, each of its types once
PackageIndexExact ==
    /\ DOMAIN package_structure = PackagesOf(PackagedTypes)
    /\ \A pkg \in DOMAIN package_structure :
          /\ SeqToSet(package_structure[pkg]) = {fqn \in PackagedTypes : BeforeLast(fqn, ".") = pkg}
          /\ NoDuplicates(package_structure[pkg])

\* C27: when the parallel parser has finished, whatever the interleaving of
\* its workers was, the package index maps every package to exactly the
\* top-level types stored for it: none is lost and none is listed twice.
C27_PackageIndexUnderInterleaving ==
    (pc = "rel" /\ use_parallel) => PackageIndexExact

\* the same for the sequential parser
C27_PackageIndexSequential ==
    (pc = "rel" /\ ~use_parallel) => PackageIndexExact

\* the tracked files that the validation walk of _load_from_cache looks at
ValidatedFiles == TrackedFiles \cap WalkedFiles(fs)

\* a validated file was modified after the analysis that wrote the cache read it
ModifiedSinceRead == \E path \in ValidatedFiles : mtime[path] > hist.read

\* C28: if a tracked file was modified at any time after the analysis that
\* wrote the cache read it, also while that analysis was still running, the
\* next _load_from_cache rejects the cache and a full analysis follows.
C28_ModifiedAfterReadRejected ==
    [][(pc = "ready" /\ cache_file # NoFile /\ ModifiedSinceRead /\ pc' # "ready") => pc' = "structure"]_vars

\* the same for the modifications made after the cache file was written
C28_ModifiedAfterSaveRejected ==
    [][(/\ pc = "ready"
        /\ cache_file # NoFile
        /\ \E path \in ValidatedFiles : mtime[path] > cache_file.timestamp
        /\ pc' # "ready") => pc' = "structure"]_vars

\* the component store, the method store and the set of parse errors with
\* the objects they hold
ParseResult(s) ==
    [components |-> [k \in DOMAIN s.components |-> s.cheap[s.components[k]]],
     methods |-> [k \in DOMAIN s.methods |-> s.mheap[s.methods[k]]],
     parse_errors |-> SeqToSet(s.parse_errors)]

\* what _parse_java_files_sequential computes from the same file list
SequentialResult == RunOps(FreshStores, Loc0, AllFileOps)

\* two files of the project declare a top-level type of the same FQN
SameFqnTwice ==
    \E a, b \in TopLevel :
        a.path # b.path /\ Qualified(a.package, a.node.name) = Qualified(b.package, b.node.name)

\* C29: when the parallel parser has finished, the component store, the
\* method store and the set of parse errors are those of the sequential
\* parser, in whatever order the workers ran and completed, also when two
\* files declare the same FQN.
C29_ParallelEqualsSequential ==
    (pc = "rel" /\ use_parallel) => ParseResult(St) = ParseResult(SequentialResult)

\* the same for the projects in which no FQN is declared by two files
C29_ParallelEqualsSequentialDistinct ==
    (pc = "rel" /\ use_parallel /\ ~SameFqnTwice) => ParseResult(St) = ParseResult(SequentialResult)

\* the extraction has run on the empty stores of a new explorer
Extracted == pc = "rel" /\ hist.load = "nofile"

\* the method objects in the method map of the component object cid
MethodsOf(cid) == {cheap[cid].methods[d] : d \in DOMAIN cheap[cid].methods}

\* the stores agree on the methods and their parent components
StoresConsistent ==
    /\ \A k \in DOMAIN methods :
          LET parent_component == mheap[methods[k]].parent_component
              fqn == cheap[parent_component].fully_qualified_name
          IN  /\ StartsWith(k, fqn \o <<".">>)
              /\ fqn \in DOMAIN components
              /\ components[fqn] = parent_component
              /\ methods[k] \in MethodsOf(parent_component)
    /\ \A fqn \in DOMAIN components :
          MethodsOf(components[fqn]) \subseteq {methods[k] : k \in DOMAIN methods}

\* C30: after extraction, also when two files declare the same FQN, the
\* parent component of the method stored under every key is the very component
\* stored under the FQN the key begins with, its method map holds that method,
\* and every method in the method map of a stored component is in the method
\* store.
C30_StoresConsistent ==
    Extracted => StoresConsistent

\* the same for the projects in which no FQN is declared by two files
C30_StoresConsistentDistinct ==
    (Extracted /\ ~SameFqnTwice) => StoresConsistent
====
